---- MODULE Spec2Model ----
(***************************************************************************)
(* Type resolution engine of the expression-language editor support:      *)
(* structural types (Definition), equality and classification, member     *)
(* lookup with struct embedding, generic unification, the per-node type   *)
(* resolver with its node-keyed memo, and local / predicate scopes.        *)
(*                                                                         *)
(* A Definition is a record with a "type" tag and the payload fields of    *)
(* its kind; the descriptive fields (description, deprecated, package)     *)
(* carry no type information and are left out.  A JavaScript object whose  *)
(* key order matters (struct fields) is a sequence of named records; one   *)
(* whose order does not matter is a function from names.                   *)
(***************************************************************************)
EXTENDS Integers, Sequences, FiniteSets, TLC

VARIABLES
  tree,     \* the current parsed-tree snapshot (syntaxTree(state))
  cache,    \* the module-level NodeWeakMap: node identity -> Definition
  ret,      \* what the last getDefinition query returned to its caller
  edits,    \* number of edits applied so far
  queries,  \* number of queries answered against the current snapshot
  fresh,    \* node identities whose memo entry was written under the current snapshot
  call,     \* the pure function applied last, with its arguments
  out       \* and what it returned

vars == <<tree, cache, ret, edits, queries, fresh, call, out>>

(***************************************************************************)
(* Values                                                                  *)
(***************************************************************************)
\* JavaScript null / undefined.
Null == [null |-> TRUE]

\* An exception propagating out of a call (TypeError on a property of
\* null / undefined, RangeError on unbounded recursion).
Raise == [raise |-> TRUE]

\* t.type of a non-null object; "undefined" when the object has no such key.
Ty(t) == IF "type" \in DOMAIN t THEN t.type ELSE "undefined"

\* o.k of a non-null object.
Fld(o, k) == IF k \in DOMAIN o THEN o[k] ELSE Null

\* o.k ?? false, of a boolean flag
IsSet(o, k) == k \in DOMAIN o /\ o[k]

\* {...a, ...b} of two objects: the keys of both, b's value where both have one
Over(a, b) == [k \in DOMAIN a \cup DOMAIN b |-> IF k \in DOMAIN b THEN b[k] ELSE a[k]]

\* {...a, ...b}, where spreading null or undefined adds nothing
Spread(a, b) ==
  IF b = Null THEN a ELSE IF a = Null THEN b ELSE Over(a, b)

\* const {k, ...rest} = o
Without(o, k) == [x \in DOMAIN o \ {k} |-> o[x]]

T(kind) == [type |-> kind]
AnyT == T("any")
IntT == T("int")
StringT == T("string")
BoolT == T("bool")
NilT == T("nil")
FloatT == T("float")
NumberT == T("number")
Slice(i) == [type |-> "slice", item |-> i]
Array(i, n) == [type |-> "array", size |-> n, item |-> i]
Channel(i) == [type |-> "chan", item |-> i]
Map(k, v) == [type |-> "map", key |-> k, value |-> v]
Pointer(t) == [type |-> "pointer", to |-> t]
Optional(i) == [type |-> "optional", item |-> i]
Generic(g) == [type |-> "generic", generic |-> g]
Defined(n) == [type |-> "defined", typeName |-> n]
Func(a, r) == [type |-> "func", args |-> a, returns |-> r]
Struct(f) == [type |-> "struct", fields |-> f]
Named(n, t) == Over(t, [name |-> n])

(***************************************************************************)
(* Type equality and classification                                        *)
(***************************************************************************)
isNumber(t) ==
  Ty(t) \in {"int8", "int16", "int32", "int64", "uint8", "uint16", "uint32",
             "uint64", "float32", "float64", "int", "number", "float"}

isSlice(t) == t # Null /\ Ty(t) \in {"slice", "array"}

RECURSIVE isEquals(_, _)
isEquals(a, b) ==
  IF a = Null \/ b = Null THEN FALSE
  ELSE IF Ty(a) # Ty(b)
    THEN \/ isNumber(a) /\ isNumber(b)
         \/ Ty(a) \in {"optional", "pointer"} /\ Ty(b) = "nil"
  ELSE CASE Ty(a) = "defined" -> a.typeName = Fld(b, "typeName")
         [] Ty(a) = "chan" -> isEquals(Fld(a, "item"), Fld(b, "item"))
         [] Ty(a) = "map" -> /\ isEquals(Fld(a, "key"), Fld(b, "key"))
                             /\ isEquals(Fld(a, "value"), Fld(b, "value"))
         [] Ty(a) = "pointer" -> isEquals(Fld(a, "to"), Fld(b, "to"))
         [] Ty(a) = "func" ->
              /\ Len(a.args) = Len(b.args)
              /\ Len(a.returns) = Len(b.returns)
              /\ \A i \in 1..Len(a.args) : isEquals(a.args[i], b.args[i])
              /\ \A i \in 1..Len(a.returns) : isEquals(a.returns[i], b.returns[i])
         [] OTHER -> TRUE

isUnknownType(t) == t = Null \/ Ty(t) \in {"any", "interface"}

isPredicativeFunc(name) ==
  name \in {"all", "any", "one", "none", "filter", "find", "findIndex",
            "findLast", "findLastIndex", "groupBy", "count", "map", "reduce",
            "sortBy", "sum"}

(***************************************************************************)
(* Member resolver                                                         *)
(***************************************************************************)
resolveRef(s, t) ==
  IF Ty(t) = "defined" /\ t.typeName \in DOMAIN s.types
    THEN s.types[t.typeName] ELSE t

\* src.fields as declared, [] when the object has none
Fields(src) == IF "fields" \in DOMAIN src THEN src.fields ELSE <<>>

FieldIdx(src, name) == {i \in 1..Len(Fields(src)) : Fields(src)[i].name = name}

Min(S) == CHOOSE x \in S : \A y \in S : x <= y

\* getMember with the chain of arguments of the calls in progress: a call
\* whose argument is already in progress recurses without end, which the
\* runtime ends with a RangeError.
RECURSIVE getMemberIn(_, _, _, _)
RECURSIVE getMemberEmbedded(_, _, _, _, _)
getMemberEmbedded(s, src, name, stack, i) ==
  IF i > Len(src.fields) THEN Null
  ELSE LET field == src.fields[i] IN
    IF Ty(field) = "defined" /\ IsSet(field, "embedded")
      THEN LET member == getMemberIn(s, resolveRef(s, field), name, stack) IN
           IF member # Null THEN member
           ELSE getMemberEmbedded(s, src, name, stack, i + 1)
      ELSE getMemberEmbedded(s, src, name, stack, i + 1)

getMemberIn(s, src, name, stack) ==
  IF src = Null THEN Raise
  ELSE IF src \in stack THEN Raise
  ELSE IF Ty(src) = "struct" /\ FieldIdx(src, name) # {}
    THEN src.fields[Min(FieldIdx(src, name))]
  ELSE IF "methods" \in DOMAIN src /\ name \in DOMAIN src.methods
    THEN src.methods[name]
  ELSE CASE Ty(src) = "struct" ->
              getMemberEmbedded(s, src, name, stack \cup {src}, 1)
         [] Ty(src) = "defined" ->
              getMemberIn(s, resolveRef(s, src), name, stack \cup {src})
         [] OTHER -> Null

getMember(s, src, name) == getMemberIn(s, src, name, {})


\* src.fields as an object: name -> field
FieldMap(src) ==
  [n \in {Fields(src)[i].name : i \in 1..Len(Fields(src))} |->
     Fields(src)[Min(FieldIdx(src, n))]]

\* getMembers with the chain of arguments of the calls in progress, as
\* getMemberIn: [ok |-> FALSE] when the recursion does not end.
RECURSIVE getMembersIn(_, _, _)
RECURSIVE getMembersEmbedded(_, _, _, _, _)

\* A variant of the step below that drops what the embedded type exposes.
getMembersUnpromoted(s, src, stack, i, members, promoted) ==
  IF ~promoted.ok THEN promoted
  ELSE getMembersEmbedded(s, src, stack, i + 1, members)

\* resolver line 93: members = {...members, ...getMembers(s, resolveRef(s, field))}
getMembersPromoted(s, src, stack, i, members, promoted) ==
  IF ~promoted.ok THEN promoted
  ELSE getMembersEmbedded(s, src, stack, i + 1, Over(members, promoted.v))

\* The loop over the fields of a struct (resolver lines 89-95), from field i
getMembersEmbedded(s, src, stack, i, members) ==
  IF i > Len(src.fields) THEN [ok |-> TRUE, v |-> members]
  ELSE IF Ty(src.fields[i]) = "defined" /\ IsSet(src.fields[i], "embedded")
    THEN getMembersPromoted(s, src, stack, i, members,
                            getMembersIn(s, resolveRef(s, src.fields[i]), stack))
    ELSE getMembersEmbedded(s, src, stack, i + 1, members)

\* resolver line 99: members = {...members, ...getMembers(s, resolveRef(s, src))}
getMembersResolved(members, resolved) ==
  IF ~resolved.ok THEN resolved
  ELSE [ok |-> TRUE, v |-> Over(members, resolved.v)]

\* resolver lines 83-103, methods the members the call starts from
getMembersFrom(s, src, stack, methods) ==
  CASE Ty(src) = "struct" ->
         getMembersEmbedded(s, src, stack \cup {src}, 1, Over(methods, FieldMap(src)))
    [] Ty(src) = "defined" ->
         getMembersResolved(methods, getMembersIn(s, resolveRef(s, src), stack \cup {src}))
    [] OTHER -> [ok |-> TRUE, v |-> methods]

getMembersIn(s, src, stack) ==
  IF src \in stack THEN [ok |-> FALSE, v |-> <<>>]
  ELSE getMembersFrom(s, src, stack, IF "methods" \in DOMAIN src THEN src.methods ELSE <<>>)

getMembers(s, src) == getMembersIn(s, src, {})
(***************************************************************************)
(* Generic resolver                                                        *)
(***************************************************************************)
\* {...a, ...b} of two name -> value tables
Merge(a, b) == Over(a, b)

RECURSIVE collectGenerics(_, _)
RECURSIVE collectPairwise(_, _, _)
\* ts.reduce((acc, t, idx) => ({...acc, ...collectGenerics(t, as[idx])}), {}),
\* over the first n entries of ts
collectPairwise(ts, as, n) ==
  IF n = 0 THEN <<>>
  ELSE Merge(collectPairwise(ts, as, n - 1),
             collectGenerics(ts[n], IF n <= Len(as) THEN as[n] ELSE Null))

collectGenerics(t, a) ==
  IF t = Null \/ a = Null THEN <<>>
  ELSE IF Ty(t) = "generic" THEN t.generic :> a
  ELSE CASE Ty(t) \in {"array", "slice", "chan"} ->
              IF Ty(a) = Ty(t)
                THEN collectGenerics(Fld(t, "item"), Fld(a, "item")) ELSE <<>>
         [] Ty(t) = "map" ->
              IF Ty(a) = Ty(t)
                THEN Merge(collectGenerics(Fld(t, "key"), Fld(a, "key")),
                           collectGenerics(Fld(t, "value"), Fld(a, "value")))
                ELSE <<>>
         [] Ty(t) = "pointer" ->
              IF Ty(a) = Ty(t)
                THEN collectGenerics(Fld(t, "to"), Fld(a, "to")) ELSE <<>>
         [] Ty(t) = "func" ->
              IF Ty(a) = Ty(t)
                THEN Merge(collectPairwise(t.args, a.args, Len(t.args)),
                           collectPairwise(t.returns, a.returns, Len(t.returns)))
                ELSE <<>>
         [] OTHER -> <<>>

RECURSIVE patchGenerics(_, _)
patchGenerics(m, t) ==
  CASE Ty(t) \in {"slice", "array", "chan"} ->
         [t EXCEPT !.item = patchGenerics(m, t.item)]
    [] Ty(t) = "map" -> Map(patchGenerics(m, t.key), patchGenerics(m, t.value))
    [] Ty(t) = "pointer" -> [t EXCEPT !.to = patchGenerics(m, t.to)]
    [] Ty(t) = "optional" -> [t EXCEPT !.item = patchGenerics(m, t.item)]
    [] Ty(t) = "func" ->
         [Without(t, "generics") EXCEPT
            !.args = [i \in 1..Len(t.args) |-> patchGenerics(m, t.args[i])],
            !.returns = [i \in 1..Len(t.returns) |-> patchGenerics(m, t.returns[i])]]
    [] Ty(t) = "generic" ->
         Spread(Without(t, "generic"),
                IF t.generic \in DOMAIN m THEN m[t.generic] ELSE Null)
    [] OTHER -> t

\* A variant of the loop below that unifies a predicate argument against the
\* declared func parameter itself instead of against its return type.
RECURSIVE bindArgumentsDeclared(_, _, _, _, _)
bindArgumentsDeclared(f, args, name, argIdx, generics) ==
  IF argIdx > Len(args) THEN [ok |-> TRUE, generics |-> generics]
  ELSE LET defArgIdx == IF argIdx <= Len(f.args) THEN argIdx ELSE Len(f.args)
       IN IF defArgIdx = 0 THEN [ok |-> FALSE, generics |-> generics]
          ELSE IF defArgIdx # argIdx /\ ~IsSet(f.args[defArgIdx], "variadic")
            THEN [ok |-> TRUE, generics |-> generics]
            ELSE bindArgumentsDeclared(f, args, name, argIdx + 1,
                   Merge(collectGenerics(f.args[defArgIdx], args[argIdx]), generics))

\* A variant of the loop below in which the bindings of a later argument
\* replace those of the earlier ones.
RECURSIVE bindArgumentsLatest(_, _, _, _, _)
bindArgumentsLatest(f, args, name, argIdx, generics) ==
  IF argIdx > Len(args) THEN [ok |-> TRUE, generics |-> generics]
  ELSE LET defArgIdx == IF argIdx <= Len(f.args) THEN argIdx ELSE Len(f.args)
       IN IF defArgIdx = 0 THEN [ok |-> FALSE, generics |-> generics]
          ELSE IF defArgIdx # argIdx /\ ~IsSet(f.args[defArgIdx], "variadic")
            THEN [ok |-> TRUE, generics |-> generics]
            ELSE bindArgumentsLatest(f, args, name, argIdx + 1,
                   Merge(generics,
                         collectGenerics(
                           IF /\ isPredicativeFunc(name)
                              /\ Ty(f.args[defArgIdx]) = "func"
                              /\ Len(f.args[defArgIdx].returns) = 1
                             THEN f.args[defArgIdx].returns[1] ELSE f.args[defArgIdx],
                           args[argIdx])))

\* The loop over the call-site arguments (resolver lines 385-396), from
\* argument argIdx (1-based here) on, with the bindings found so far:
\* [ok |-> FALSE] when reading f.args[-1].variadic throws.
RECURSIVE bindArguments(_, _, _, _, _)
bindArguments(f, args, name, argIdx, generics) ==
  IF argIdx > Len(args) THEN [ok |-> TRUE, generics |-> generics]
  ELSE LET defArgIdx == IF argIdx <= Len(f.args) THEN argIdx ELSE Len(f.args)
           actual == args[argIdx]
       IN IF defArgIdx = 0 THEN [ok |-> FALSE, generics |-> generics]
          ELSE LET declared == f.args[defArgIdx] IN
            IF defArgIdx # argIdx /\ ~IsSet(declared, "variadic")
              THEN [ok |-> TRUE, generics |-> generics]
              ELSE LET expected ==
                         IF /\ isPredicativeFunc(name)
                            /\ Ty(declared) = "func"
                            /\ Len(declared.returns) = 1
                           THEN declared.returns[1] ELSE declared
                   IN bindArguments(f, args, name, argIdx + 1,
                        Merge(collectGenerics(expected, actual), generics))

\* A variant of the forEach below that keeps every binding as it is,
\* whatever the constraint list says.
constrainGenericsLenient(f, generics) ==
  [g \in DOMAIN f.generics \cup DOMAIN generics |->
     IF g \in DOMAIN generics THEN generics[g] ELSE AnyT]

\* The forEach over the declared generics (resolver lines 398-413).
constrainGenerics(f, generics) ==
  LET resolved(g) == IF g \in DOMAIN generics THEN generics[g] ELSE AnyT
      equals(g) == \E i \in 1..Len(f.generics[g]) :
                     \/ isUnknownType(f.generics[g][i])
                     \/ isEquals(resolved(g), f.generics[g][i])
      kept == {g \in DOMAIN f.generics : equals(g) \/ Len(f.generics[g]) > 0}
  IN [g \in kept \cup (DOMAIN generics \ DOMAIN f.generics) |->
        IF g \notin DOMAIN f.generics THEN generics[g]
        ELSE IF equals(g) THEN resolved(g) ELSE f.generics[g][1]]

resolveFuncGenerics(f, args, name) ==
  IF "generics" \notin DOMAIN f THEN f
  ELSE LET bound == bindArguments(f, args, name, 1, <<>>) IN
       IF ~bound.ok THEN Raise
       ELSE patchGenerics(constrainGenerics(f, bound.generics), f)

(***************************************************************************)
(* Scopes: the built-in registry and the scope attached to the tree        *)
(***************************************************************************)
\* The predicate parameter of the array built-ins.
PredicateArg(args, returns) ==
  [name |-> "predicate", type |-> "func", args |-> args, returns |-> returns]

\* builtIn.variables, the entries the documents below can name.
builtInVariables ==
  Over(("$env" :> [name |-> "$env", type |-> "map", key |-> StringT, value |-> AnyT]),
  [map |->
     [name |-> "map", type |-> "func",
      generics |-> [T |-> <<AnyT>>, R |-> <<AnyT>>],
      args |-> << Named("array", Slice(Generic("T"))),
                  PredicateArg(<<Named("#index", IntT), Named("#", Generic("T"))>>,
                               <<Generic("R")>>) >>,
      returns |-> <<Slice(Generic("R"))>>],
   filter |->
     [name |-> "filter", type |-> "func",
      generics |-> [T |-> <<AnyT>>],
      args |-> << Named("array", Slice(Generic("T"))),
                  PredicateArg(<<Named("#", Generic("T"))>>, <<BoolT>>) >>,
      returns |-> <<Slice(Generic("T"))>>],
   find |->
     [name |-> "find", type |-> "func",
      generics |-> [T |-> <<AnyT>>],
      args |-> << Named("array", Slice(Generic("T"))),
                  PredicateArg(<<Named("#", Generic("T"))>>, <<BoolT>>) >>,
      returns |-> <<Optional(Generic("T"))>>],
   reduce |->
     [name |-> "reduce", type |-> "func",
      generics |-> [T |-> <<AnyT>>, T2 |-> <<AnyT>>, R |-> <<AnyT>>],
      args |-> << Named("array", Slice(Generic("T"))),
                  PredicateArg(<<Named("#index", IntT), Named("#", Generic("T")),
                                 Named("#acc", Generic("T2"))>>,
                               <<Generic("R")>>),
                  [name |-> "initialValue", type |-> "generic", generic |-> "T2",
                   required |-> FALSE] >>,
      returns |-> <<Generic("R")>>],
   int |->
     [name |-> "int", type |-> "func",
      generics |-> [T |-> <<NumberT, StringT>>],
      args |-> <<Named("v", Generic("T"))>>,
      returns |-> <<IntT>>],
   string |->
     [name |-> "string", type |-> "func",
      args |-> <<Named("v", AnyT)>>,
      returns |-> <<StringT>>],
   now |->
     [name |-> "now", type |-> "func", args |-> <<>>,
      returns |-> <<Defined("time.Time")>>]])


\* The host environment given to useScope: variables and named types of
\* the embedding application.
hostVariables ==
  [arr |-> Named("arr", Slice(IntT)),
   x |-> Named("x", Optional(IntT)),
   n |-> Named("n", IntT),
   u |-> Named("u", Defined("User")),
   a |-> Named("a", AnyT)]

hostTypes ==
  [User |-> [name |-> "User", type |-> "struct",
             fields |-> << Named("Name", StringT),
                           [name |-> "Base", type |-> "defined", typeName |-> "Base",
                            embedded |-> TRUE] >>],
   Base |-> [name |-> "Base", type |-> "struct",
             fields |-> <<Named("ID", IntT)>>]]

\* builtIn.types: time.Time, with two of its methods.
builtInTypes ==
  "time.Time" :>
    [name |-> "Time", package |-> "time", type |-> "struct", fields |-> <<>>,
     methods |->
       [After |-> [name |-> "After", type |-> "func",
                   receiver |-> Defined("time.Time"),
                   args |-> <<Named("u", Defined("time.Time"))>>,
                   returns |-> <<BoolT>>],
        Day |-> [name |-> "Day", type |-> "func",
                 receiver |-> Defined("time.Time"),
                 args |-> <<>>, returns |-> <<IntT>>]]]

\* The built-in scope with the host's entries merged over it.
buildScope(scope) ==
  [variables |-> Over(builtInVariables, scope.variables),
   types |-> Over(builtInTypes, scope.types)]

\* getScope(node): the scope useScope attached to the tree.
Scope == buildScope([variables |-> hostVariables, types |-> hostTypes])

(***************************************************************************)
(* Syntax trees.  A node is [name, text, kids]; its identity within a      *)
(* snapshot is its path from the root (the sequence of child indexes).     *)
(***************************************************************************)
Leaf(name, text) == [name |-> name, text |-> text, kids |-> <<>>]
Tree(name, kids) == [name |-> name, text |-> "", kids |-> kids]

\* Node names in the group Groups.Expr and in Groups.Op.
ExprNames ==
  {"VarName", "Integer", "Float", "String", "Bool", "Nil", "SelectorExpr",
   "OptionalSelectorExpr", "Pointer", "PointerSelectorExpr", "ParenthesizedExpr",
   "Array", "Map", "IndexExpr", "SliceExpr", "RangeExpr", "CallExpr", "PipeExpr",
   "UnaryExpr", "BinaryExpr", "ConditionalExpr", "Predicate", "Block"}
OpNames == {"ArithmeticOp", "CompareOp", "LogicOp"}

RECURSIVE NodeAt(_, _)
NodeAt(t, p) == IF p = <<>> THEN t ELSE NodeAt(t.kids[Head(p)], Tail(p))

RECURSIVE Paths(_)
Paths(t) ==
  {<<>>} \cup UNION {{<<i>> \o q : q \in Paths(t.kids[i])} : i \in 1..Len(t.kids)}

\* A null node: no path has a zero in it.
NoNode == <<0>>

\* node.parent, null at the root
Parent(p) == IF p = <<>> THEN NoNode ELSE SubSeq(p, 1, Len(p) - 1)

\* node.getChildren(group): the paths of the children whose name is in names
RECURSIVE KeepIn(_, _, _, _)
KeepIn(t, p, names, i) ==
  IF i > Len(NodeAt(t, p).kids) THEN <<>>
  ELSE (IF NodeAt(t, p).kids[i].name \in names THEN <<Append(p, i)>> ELSE <<>>)
       \o KeepIn(t, p, names, i + 1)
getChildren(t, p, names) == KeepIn(t, p, names, 1)

\* node.getChild(group): the first such child, or null
getChild(t, p, names) ==
  LET cs == getChildren(t, p, names) IN IF cs = <<>> THEN NoNode ELSE cs[1]

\* entry i of an array of nodes, undefined past its end
At(seq, i) == IF i \in 1..Len(seq) THEN seq[i] ELSE NoNode

\* state.doc.sliceString(node.from, node.to): the node's tokens, in order
RECURSIVE sliceString(_)
RECURSIVE JoinKids(_, _)
JoinKids(kids, i) ==
  IF i > Len(kids) THEN "" ELSE sliceString(kids[i]) \o JoinKids(kids, i + 1)
sliceString(node) ==
  IF node.kids = <<>> THEN node.text ELSE JoinKids(node.kids, 1)

\* Offsets.  A declaration may be followed by blanks (its "ws" field) that
\* belong to no node.
RECURSIVE Size(_)
RECURSIVE SpanUpTo(_, _)
Span(node) == Size(node) + (IF "ws" \in DOMAIN node THEN node.ws ELSE 0)
SpanUpTo(kids, n) == IF n = 0 THEN 0 ELSE SpanUpTo(kids, n - 1) + Span(kids[n])
Size(node) ==
  IF node.kids = <<>> THEN Len(node.text) ELSE SpanUpTo(node.kids, Len(node.kids))

RECURSIVE From(_, _)
From(t, p) ==
  IF p = <<>> THEN 0
  ELSE From(t, Parent(p)) + SpanUpTo(NodeAt(t, Parent(p)).kids, p[Len(p)] - 1)
To(t, p) == From(t, p) + Size(NodeAt(t, p))

\* The nodes in the order tree.iterate enters them.
RECURSIVE PreOrder(_, _)
RECURSIVE PreOrderKids(_, _, _)
PreOrderKids(t, p, i) ==
  IF i > Len(NodeAt(t, p).kids) THEN <<>>
  ELSE PreOrder(t, Append(p, i)) \o PreOrderKids(t, p, i + 1)
PreOrder(t, p) == <<p>> \o PreOrderKids(t, p, 1)

(***************************************************************************)
(* Expression type resolver.  Every operator that can reach getDefinition  *)
(* takes the memo c and returns [v, c]: its value and the memo as the call *)
(* leaves it.  v = Raise when the call throws; the memo then keeps what    *)
(* the calls completed before the throw have written.                      *)
(***************************************************************************)
R(v, c) == [ok |-> TRUE, v |-> v, c |-> c]
Thrown(c) == [ok |-> FALSE, v |-> Raise, c |-> c]
\* the result of a call that does not touch the memo
V(v, c) == IF v = Raise THEN Thrown(c) ELSE R(v, c)

RECURSIVE getDefinition(_, _, _)
RECURSIVE definition(_, _, _)
RECURSIVE getDefinitions(_, _, _, _)
RECURSIVE getLocalScope(_, _, _)
RECURSIVE collectDeclarations(_, _, _, _, _, _)
RECURSIVE getPointersFrom(_, _, _, _)
RECURSIVE getPredicateScope(_, _, _)

\* ps.map(p => getDefinition(state, p)), from entry Len(acc) + 1 on
getDefinitions(t, c, ps, acc) ==
  IF Len(acc) = Len(ps) THEN R(acc, c)
  ELSE LET r == getDefinition(t, c, ps[Len(acc) + 1]) IN
       IF ~r.ok THEN r ELSE getDefinitions(t, r.c, ps, Append(acc, r.v))

\* The nearest ancestor-or-self of p with the given name, or null.
RECURSIVE Closest(_, _, _)
Closest(t, p, name) ==
  IF p = NoNode THEN NoNode
  ELSE IF NodeAt(t, p).name = name THEN p
  ELSE Closest(t, Parent(p), name)

\* A variant of the test below that never recognises the right-hand side of
\* a pipe, so that no pipe source is prepended.
IsPipeTargetNever(t, p) == FALSE

\* node.parent is a PipeExpr and node has a previous sibling
IsPipeTarget(t, p) ==
  /\ p # <<>>
  /\ NodeAt(t, Parent(p)).name = "PipeExpr"
  /\ p[Len(p)] > 1

\* predicate.args.reduce((acc, arg) => ({...acc, [arg.name]: arg}), {})
ArgsByName(args) ==
  [nm \in {args[i].name : i \in 1..Len(args)} |->
     args[CHOOSE i \in 1..Len(args) :
            /\ args[i].name = nm
            /\ \A j \in 1..Len(args) : args[j].name = nm => j <= i]]

\* The scope a resolved predicate signature gives, with the fallback for the
\* accumulator of reduce (resolver lines 369-379).
accumulatorFallback(scope, c) ==
  IF "#acc" \in DOMAIN scope /\ Ty(scope["#acc"]) = "any"
    THEN R(Over(scope, "#acc" :> Fld(scope, "#")), c)
    ELSE R(scope, c)

\* resolver lines 366-367: the predicate parameter of the resolved built-in
predicateOf(func, pos, c) ==
  IF func = Raise THEN Thrown(c)
  ELSE accumulatorFallback(ArgsByName(func.args[pos + 1].args), c)

\* resolver lines 364-366, definitions being the types of the arguments
\* with the predicate's own masked as any
predicateScopeWith(def, name, pos, definitions) ==
  IF ~definitions.ok THEN definitions
  ELSE predicateOf(resolveFuncGenerics(def, definitions.v, name), pos, definitions.c)

\* resolver lines 361-364
predicateScopeAt(t, c, def, name, args, pos) ==
  IF pos >= Len(def.args) THEN R(<<>>, c)
  ELSE IF Ty(def.args[pos + 1]) # "func" THEN R(<<>>, c)
  ELSE predicateScopeWith(def, name, pos,
         getDefinitions(t, c,
           [i \in 1..Len(args) |-> IF i # pos + 1 THEN args[i] ELSE NoNode], <<>>))

\* resolver lines 350-360: the argument nodes, the pipe source first, and
\* the position of the argument that holds node p
predicateScopeArgs(t, c, p, callp, def, name, argsNode) ==
  IF argsNode = NoNode THEN R(<<>>, c)
  ELSE predicateScopeAt(t, c, def, name,
         (IF IsPipeTarget(t, callp)
            THEN <<getChild(t, Parent(callp), ExprNames)>> ELSE <<>>)
           \o getChildren(t, argsNode, ExprNames),
         (IF IsPipeTarget(t, callp) THEN 1 ELSE 0)
           + Len(SelectSeq(getChildren(t, argsNode, {","}),
                           LAMBDA comma : To(t, comma) <= From(t, p))))

\* resolver lines 344-348
predicateScopeNamed(t, c, p, callp, name) ==
  IF ~isPredicativeFunc(name) THEN R(<<>>, c)
  ELSE IF name \notin DOMAIN builtInVariables THEN R(<<>>, c)
  ELSE IF Ty(builtInVariables[name]) # "func" THEN R(<<>>, c)
  ELSE predicateScopeArgs(t, c, p, callp, builtInVariables[name], name,
                          getChild(t, callp, {"Arguments"}))

\* resolver lines 341-344
predicateScopeOfCallee(t, c, p, callp, varName) ==
  IF varName = NoNode THEN R(<<>>, c)
  ELSE predicateScopeNamed(t, c, p, callp, sliceString(NodeAt(t, varName)))

\* resolver lines 339-341
predicateScopeOfCall(t, c, p, callp) ==
  IF callp = NoNode THEN R(<<>>, c)
  ELSE predicateScopeOfCallee(t, c, p, callp, getChild(t, callp, ExprNames))

getPredicateScope(t, c, p) ==
  IF p = NoNode \/ p = <<>> THEN R(<<>>, c)
  ELSE IF NodeAt(t, p).name = ")" THEN R(<<>>, c)
  ELSE predicateScopeOfCall(t, c, p,
         Closest(t, Closest(t, p, "Arguments"), "CallExpr"))

\* One step of getPointers' loop at an Arguments node, s the predicate scope
\* of the node below it.
pointersOr(t, cur, s) ==
  IF ~s.ok THEN s
  ELSE IF "#" \in DOMAIN s.v THEN s
  ELSE getPointersFrom(t, s.c, Parent(cur), cur)

\* getPointers, at the step of its loop where cur and prev stand
getPointersFrom(t, c, cur, prev) ==
  IF cur = NoNode THEN R(<<>>, c)
  ELSE IF NodeAt(t, cur).name = "Arguments"
    THEN pointersOr(t, cur, getPredicateScope(t, c, prev))
    ELSE getPointersFrom(t, c, Parent(cur), cur)

getPointers(t, c, p) == getPointersFrom(t, c, p, p)

\* resolver line 300: the initializer's Definition under the declared name
declarationOf(name, def) ==
  IF ~def.ok THEN def
  ELSE R(Spread(def.v, [name |-> name]), def.c)

\* toVarDeclaration without the description
toVarDeclaration(t, c, varDecl) ==
  IF getChild(t, varDecl, {"DefName"}) = NoNode THEN R(Null, c)
  ELSE declarationOf(NodeAt(t, getChild(t, varDecl, {"DefName"})).text,
                     getDefinition(t, c, getChild(t, varDecl, ExprNames)))

\* resolver line 310: scope = {[def.name]: def, ...scope}, then on to the
\* next node
declare(t, order, i, pos, scope, def) ==
  IF ~def.ok THEN def
  ELSE collectDeclarations(t, def.c, order, i + 1, pos,
         IF def.v = Null THEN scope
         ELSE Merge((def.v.name :> def.v), scope))

\* A variant of the callback below that also takes the declarations that
\* end at the offset itself.
collectDeclarationsUpTo(t, c, order, i, pos, scope) ==
  IF i > Len(order) THEN R(scope, c)
  ELSE IF NodeAt(t, order[i]).name = "VarDecl" /\ To(t, order[i]) <= pos
    THEN declare(t, order, i, pos, scope, toVarDeclaration(t, c, order[i]))
    ELSE collectDeclarations(t, c, order, i + 1, pos, scope)

\* The enter callback of getLocalScope over the nodes `order`, from entry i
collectDeclarations(t, c, order, i, pos, scope) ==
  IF i > Len(order) THEN R(scope, c)
  ELSE IF NodeAt(t, order[i]).name = "VarDecl" /\ To(t, order[i]) < pos
    THEN declare(t, order, i, pos, scope, toVarDeclaration(t, c, order[i]))
    ELSE collectDeclarations(t, c, order, i + 1, pos, scope)

\* resolver lines 306-317, ptrs the scope getPointers gave
localScopeOver(t, target, ptrs) ==
  IF ~ptrs.ok THEN ptrs
  ELSE collectDeclarations(t, ptrs.c, PreOrder(t, <<>>), 1, From(t, target), ptrs.v)

\* getLocalScope(state, target) with pos left to its default
getLocalScope(t, c, target) == localScopeOver(t, target, getPointers(t, c, target))

\* getLocalScope(state, target, pos) with the offset given
localScopeBefore(t, pos, ptrs) ==
  IF ~ptrs.ok THEN ptrs
  ELSE collectDeclarations(t, ptrs.c, PreOrder(t, <<>>), 1, pos, ptrs.v)

getLocalScopeAt(t, c, target, pos) == localScopeBefore(t, pos, getPointers(t, c, target))

\* resolver lines 149-150, locals the local scope of the node
definitionLocal(name, locals) ==
  IF ~locals.ok THEN locals
  ELSE IF name \in DOMAIN locals.v
    THEN R(Spread(locals.v[name], [name |-> name]), locals.c)
    ELSE R(AnyT, locals.c)

\* A variant of the VarName case below that looks the name up among the
\* local declarations first and in the attached scope after them.
definitionLocalFirst(name, locals) ==
  IF ~locals.ok THEN locals
  ELSE IF name \in DOMAIN locals.v
    THEN R(Spread(locals.v[name], [name |-> name]), locals.c)
  ELSE IF name \in DOMAIN Scope.variables
    THEN R(Spread(Scope.variables[name], [name |-> name]), locals.c)
    ELSE R(AnyT, locals.c)

definitionVarNameLocalFirst(t, c, p, name) ==
  definitionLocalFirst(name, getLocalScope(t, c, p))

\* resolver lines 143-153
definitionVarName(t, c, p, name) ==
  IF name \in DOMAIN Scope.variables
    THEN R(Spread(Scope.variables[name], [name |-> name]), c)
    ELSE definitionLocal(name, getLocalScope(t, c, p))

\* resolver lines 154-159, source the Definition of the selected expression
definitionSelector(t, source, field) ==
  IF ~source.ok THEN source
  ELSE IF field # NoNode
    THEN V(getMember(Scope, source.v, sliceString(NodeAt(t, field))), source.c)
    ELSE R(AnyT, source.c)

\* resolver lines 160-168
definitionPointerSelector(t, pointers, field) ==
  IF ~pointers.ok THEN pointers
  ELSE IF "#" \notin DOMAIN pointers.v THEN R(AnyT, pointers.c)
  ELSE IF field # NoNode
    THEN V(getMember(Scope, pointers.v["#"], sliceString(NodeAt(t, field))), pointers.c)
    ELSE R(AnyT, pointers.c)

\* resolver lines 169-175
definitionPointer(name, pointers) ==
  IF ~pointers.ok THEN pointers
  ELSE IF name \in DOMAIN pointers.v THEN R(pointers.v[name], pointers.c)
  ELSE R(AnyT, pointers.c)

\* A variant of the rule below that takes the item type from the last
\* element instead of the first.
arrayDefinitionLast(children) ==
  IF Len(children) = 0 THEN Slice(AnyT)
  ELSE IF \E idx \in 2..Len(children) : ~isEquals(children[1], children[idx])
    THEN Slice(AnyT)
    ELSE Slice(children[Len(children)])

\* The type of an array literal from the types of its elements
\* (resolver lines 182-187).
arrayDefinition(children) ==
  IF Len(children) = 0 THEN Slice(AnyT)
  ELSE IF \E idx \in 2..Len(children) : ~isEquals(children[1], children[idx])
    THEN Slice(AnyT)
    ELSE Slice(children[1])

\* resolver lines 180-188
definitionArray(children) ==
  IF ~children.ok THEN children
  ELSE R(arrayDefinition(children.v), children.c)

\* resolver lines 189-201, values the Definitions of the pairs' values
definitionMap(values) ==
  IF ~values.ok THEN values
  ELSE IF Len(values.v) = 0 THEN R(Map(StringT, AnyT), values.c)
  ELSE IF \E idx \in 2..Len(values.v) : ~isEquals(values.v[1], values.v[idx])
    THEN R(Map(StringT, AnyT), values.c)
    ELSE R(Map(StringT, values.v[1]), values.c)

\* resolver lines 202-207
definitionIndex(source) ==
  IF ~source.ok THEN source
  ELSE IF source.v = Null THEN Thrown(source.c)
  ELSE IF Ty(source.v) \in {"array", "slice"} THEN R(Fld(source.v, "item"), source.c)
  ELSE IF Ty(source.v) = "map" THEN R(Fld(source.v, "value"), source.c)
  ELSE R(AnyT, source.c)

\* resolver lines 208-212
definitionSlice(source) ==
  IF ~source.ok THEN source
  ELSE IF source.v = Null THEN Thrown(source.c)
  ELSE IF Ty(source.v) \in {"array", "slice"}
    THEN R([type |-> "slice", item |-> Fld(source.v, "item")], source.c)
  ELSE R(AnyT, source.c)

\* resolver line 225: the first return of the resolved function
definitionReturn(f, c) ==
  IF f = Raise THEN Thrown(c)
  ELSE IF Len(f.returns) > 0 THEN R(f.returns[1], c)
  ELSE R(AnyT, c)

\* resolver lines 222-225, argsDef the Definitions of the arguments
definitionCalled(source, name, argsDef) ==
  IF ~argsDef.ok THEN argsDef
  ELSE definitionReturn(resolveFuncGenerics(source.v, argsDef.v, name), argsDef.c)

\* resolver lines 219-220: the argument nodes of the call at p, the pipe
\* source first when the call is the right-hand side of a pipe
callArguments(t, p) ==
  (IF IsPipeTarget(t, p) THEN <<getChild(t, Parent(p), ExprNames)>> ELSE <<>>)
    \o getChildren(t, getChild(t, p, {"Arguments"}), ExprNames)

\* resolver lines 213-228, source the Definition of the callee
definitionCall(t, p, callable, source) ==
  IF ~source.ok THEN source
  ELSE IF source.v = Null THEN Thrown(source.c)
  ELSE IF Ty(source.v) # "func" THEN R(AnyT, source.c)
  ELSE definitionCalled(source, sliceString(NodeAt(t, callable)),
                        getDefinitions(t, source.c, callArguments(t, p), <<>>))

\* resolver lines 233-237, r and l the Definitions of the operands
definitionOperands(r, l) ==
  IF ~l.ok THEN l
  ELSE IF r.v = Null THEN Thrown(l.c)
  ELSE IF isNumber(r.v) /\ l.v = Null THEN Thrown(l.c)
  ELSE IF isNumber(r.v) /\ isNumber(l.v) THEN R(FloatT, l.c)
  ELSE IF isEquals(r.v, l.v) THEN R(r.v, l.c)
  ELSE R(AnyT, l.c)

\* resolver line 233, r the Definition of the first operand
definitionSecond(t, exprs, r) ==
  IF ~r.ok THEN r
  ELSE definitionOperands(r, getDefinition(t, r.c, At(exprs, 2)))

\* resolver lines 229-239
definitionBinary(t, c, p, exprs) ==
  IF NodeAt(t, getChild(t, p, OpNames)).name \in {"CompareOp", "LogicOp"}
    THEN R(BoolT, c)
    ELSE definitionSecond(t, exprs, getDefinition(t, c, At(exprs, 1)))

\* resolver lines 257-261: src the operand compared with nil, branch the
\* branch the operator pairs with
definitionUnwrap(src, branch, tt, ff) ==
  IF sliceString(src) = sliceString(branch) /\ isEquals(Fld(tt.v, "item"), ff.v)
    THEN R(Fld(tt.v, "item"), ff.c)
    ELSE R(AnyT, ff.c)

\* resolver lines 254-258, right and left the operands of the comparison as
\* the code names them
definitionNilTest(operand, right, left, truth, falsehood, tt, ff) ==
  IF right.name # "Nil" /\ left.name # "Nil" THEN R(AnyT, ff.c)
  ELSE definitionUnwrap(IF right.name = "Nil" THEN left ELSE right,
                        IF operand = "!=" THEN truth ELSE falsehood,
                        tt, ff)

\* resolver lines 248-255, op the operator node of the condition
definitionCompared(t, condition, op, truth, falsehood, tt, ff) ==
  IF op.name # "CompareOp" THEN R(AnyT, ff.c)
  ELSE IF sliceString(op) # "==" /\ sliceString(op) # "!=" THEN R(AnyT, ff.c)
  ELSE definitionNilTest(sliceString(op),
                         NodeAt(t, getChildren(t, condition, ExprNames)[1]),
                         NodeAt(t, getChildren(t, condition, ExprNames)[2]),
                         truth, falsehood, tt, ff)

\* resolver lines 243-248, tt and ff the Definitions of the branches
definitionBranches(t, exprs, tt, ff) ==
  IF ~ff.ok THEN ff
  ELSE IF isEquals(tt.v, ff.v) THEN R(tt.v, ff.c)
  ELSE IF tt.v = Null THEN Thrown(ff.c)
  ELSE IF Ty(tt.v) # "optional" THEN R(AnyT, ff.c)
  ELSE IF NodeAt(t, At(exprs, 1)).name # "BinaryExpr" THEN R(AnyT, ff.c)
  ELSE definitionCompared(t, At(exprs, 1),
                          NodeAt(t, getChild(t, At(exprs, 1), OpNames)),
                          NodeAt(t, At(exprs, 2)), NodeAt(t, At(exprs, 3)), tt, ff)

\* resolver line 242, tt the Definition of the true branch
definitionFalsehood(t, exprs, tt) ==
  IF ~tt.ok THEN tt
  ELSE definitionBranches(t, exprs, tt, getDefinition(t, tt.c, At(exprs, 3)))

\* resolver lines 240-263
definitionConditional(t, c, exprs) ==
  definitionFalsehood(t, exprs, getDefinition(t, c, At(exprs, 2)))

\* The switch of definition, node the node at p and exprs its children of
\* group Expr.
definitionOf(t, c, p, node, exprs) ==
  CASE node.name = "Integer" -> R(IntT, c)
    [] node.name = "Float" -> R(FloatT, c)
    [] node.name = "String" -> R(StringT, c)
    [] node.name = "Bool" -> R(BoolT, c)
    [] node.name = "Nil" -> R(NilT, c)
    [] node.name = "RangeExpr" -> R(Slice(IntT), c)
    [] node.name = "VarName" -> definitionVarName(t, c, p, sliceString(node))
    [] node.name \in {"SelectorExpr", "OptionalSelectorExpr"} ->
         definitionSelector(t, getDefinition(t, c, At(exprs, 1)),
                            getChild(t, p, {"FieldName"}))
    [] node.name = "PointerSelectorExpr" ->
         definitionPointerSelector(t, getPointers(t, c, p), getChild(t, p, {"FieldName"}))
    [] node.name = "Pointer" -> definitionPointer(sliceString(node), getPointers(t, c, p))
    [] node.name \in {"ParenthesizedExpr", "UnaryExpr", "Block", "Predicate", "PipeExpr"} ->
         getDefinition(t, c, At(exprs, Len(exprs)))
    [] node.name = "Array" -> definitionArray(getDefinitions(t, c, exprs, <<>>))
    [] node.name = "Map" ->
         definitionMap(getDefinitions(t, c,
           [i \in 1..Len(getChildren(t, p, {"Pair"})) |->
              At(getChildren(t, getChildren(t, p, {"Pair"})[i], ExprNames), 2)],
           <<>>))
    [] node.name = "IndexExpr" -> definitionIndex(getDefinition(t, c, At(exprs, 1)))
    [] node.name = "SliceExpr" -> definitionSlice(getDefinition(t, c, At(exprs, 1)))
    [] node.name = "CallExpr" ->
         definitionCall(t, p, At(exprs, 1), getDefinition(t, c, At(exprs, 1)))
    [] node.name = "BinaryExpr" -> definitionBinary(t, c, p, exprs)
    [] node.name = "ConditionalExpr" -> definitionConditional(t, c, exprs)
    [] OTHER -> R(AnyT, c)

definition(t, c, p) == definitionOf(t, c, p, NodeAt(t, p), getChildren(t, p, ExprNames))

\* A variant of getDefinition that files the computed Definition under the
\* node but remembers `any` for it.
getDefinitionForgetful(t, c, p) ==
  IF p = NoNode THEN R(AnyT, c)
  ELSE IF p \in DOMAIN c /\ c[p] # Null THEN R(c[p], c)
  ELSE LET def == definition(t, c, p) IN
       IF ~def.ok THEN def
       ELSE R(def.v, Over(def.c, p :> AnyT))

getDefinition(t, c, p) ==
  IF p = NoNode THEN R(AnyT, c)
  ELSE IF p \in DOMAIN c /\ c[p] # Null THEN R(c[p], c)
  ELSE LET def == definition(t, c, p) IN
       IF ~def.ok THEN def
       ELSE R(def.v, Over(def.c, p :> def.v))

(***************************************************************************)
(* Documents                                                               *)
(***************************************************************************)
MaxElems == 3      \* longest array literal
MaxDecls == 2      \* most declarations in front of a document's expression
MaxQueries == 2    \* most queries in one behaviour
MaxEdits == 1      \* most edits in one behaviour

VarName(x) == Leaf("VarName", x)
Integer(x) == Leaf("Integer", x)
FloatLit == Leaf("Float", "2.5")
StringLit == Leaf("String", "'a'")
NilLit == Leaf("Nil", "nil")
PointerLit(x) == Leaf("Pointer", x)
Selector(kind, src, f) == Tree(kind, <<src, Leaf(".", "."), Leaf("FieldName", f)>>)
PointerSelector(f) == Tree("PointerSelectorExpr", <<Leaf(".", "."), Leaf("FieldName", f)>>)
ArrayExpr(es) == Tree("Array", es)
Binary(l, opName, op, r) == Tree("BinaryExpr", <<l, Leaf(opName, op), r>>)
Conditional(c, tt, ff) == Tree("ConditionalExpr", <<c, tt, ff>>)
RECURSIVE Commas(_)
Commas(as) ==
  IF Len(as) <= 1 THEN as ELSE <<Head(as), Leaf(",", ",")>> \o Commas(Tail(as))
Arguments(as) == Tree("Arguments", <<Leaf("(", "(")>> \o Commas(as) \o <<Leaf(")", ")")>>)
CallExpr(f, as) == Tree("CallExpr", <<f, Arguments(as)>>)
PipeExpr(src, f, as) == Tree("PipeExpr", <<src, CallExpr(f, as)>>)
VarDecl(name, init) == Over(Tree("VarDecl", <<Leaf("DefName", name), init>>), [ws |-> 1])
Script(decls, body) == Tree("Script", decls \o <<body>>)

\* sequences over S of length at most n
SeqsUpTo(S, n) == UNION {[1..k -> S] : k \in 0..n}

SelectorDocs ==
  {Selector(kind, src, f) :
     kind \in {"SelectorExpr", "OptionalSelectorExpr"},
     src \in {VarName("u"), VarName("a"), VarName("$env"),
              Selector("SelectorExpr", VarName("u"), "zz")},
     f \in {"Name", "ID", "zz"}}
  \cup {CallExpr(VarName("filter"), <<VarName("arr"), PointerSelector("zz")>>),
        Binary(Selector("SelectorExpr", VarName("u"), "zz"), "ArithmeticOp", "+", Integer("1")),
        Binary(Integer("1"), "ArithmeticOp", "+", Selector("SelectorExpr", VarName("u"), "zz"))}

ConditionalDocs ==
  {Conditional(Binary(side[1], "CompareOp", op, side[2]), tt, ff) :
     side \in {<<VarName("x"), NilLit>>, <<NilLit, VarName("x")>>,
               <<VarName("x"), VarName("n")>>, <<VarName("n"), NilLit>>},
     op \in {"==", "!="},
     tt \in {VarName("x"), Integer("0"), StringLit, VarName("n"),
             Selector("SelectorExpr", VarName("u"), "zz")},
     ff \in {VarName("x"), Integer("0"), StringLit, VarName("n")}}

MethodDocs ==
  {CallExpr(Selector("SelectorExpr", VarName("u"), f), <<VarName("n")>>) :
     f \in {"Name", "zz"}}

OperandPool == {VarName("n"), Integer("1"), FloatLit, StringLit, VarName("x")}
BinaryDocs ==
  {Binary(l, op[1], op[2], r) :
     l \in OperandPool, r \in OperandPool,
     op \in {<<"ArithmeticOp", "+">>, <<"CompareOp", "<">>, <<"LogicOp", "and">>}}

ElemPool == {Integer("1"), FloatLit, StringLit, VarName("x")}
ArrayDocs == {ArrayExpr(es) : es \in SeqsUpTo(ElemPool, MaxElems)}

Callees == {VarName("map"), VarName("filter"), VarName("reduce"), VarName("int"),
            VarName("now"), VarName("n")}
PipeSources == {VarName("arr"), VarName("x")}
RestArgs ==
  { <<>>,
    <<Binary(PointerLit("#"), "CompareOp", ">", Integer("2"))>>,
    <<PointerLit("#")>>,
    <<Binary(PointerLit("#"), "CompareOp", ">", Integer("2")), VarName("n")>>,
    <<PointerLit("#"), Integer("1")>> }
DirectDocs == {CallExpr(f, <<src>> \o rest) : f \in Callees, src \in PipeSources, rest \in RestArgs}
PipeDocs == {PipeExpr(src, f, rest) : f \in Callees, src \in PipeSources, rest \in RestArgs}

Inits == {Integer("1"), StringLit}
Decls == {VarDecl(v, init) : v \in {"y", "n"}, init \in Inits}
LetBodies == {VarName("y"), ArrayExpr(<<VarName("y")>>), VarName("n"), VarName("z")}
LetDocs == {Script(ds, body) : ds \in SeqsUpTo(Decls, MaxDecls) \ {<<>>}, body \in LetBodies}

Docs ==
  {Script(<<>>, body) :
     body \in SelectorDocs \cup ConditionalDocs \cup BinaryDocs \cup ArrayDocs
              \cup DirectDocs \cup PipeDocs \cup MethodDocs}
  \cup LetDocs

(***************************************************************************)
(* The editor session: queries against the current snapshot, and edits     *)
(* that replace it.                                                        *)
(***************************************************************************)
IsPrefix(p, q) == Len(p) <= Len(q) /\ SubSeq(q, 1, Len(p)) = p

RECURSIVE Replace(_, _, _)
Replace(t, p, e) ==
  IF p = <<>> THEN e
  ELSE [t EXCEPT !.kids[Head(p)] = Replace(t.kids[Head(p)], Tail(p), e)]

\* The initializer expressions of the declarations of t.
Initializers(t) ==
  {p \in Paths(t) : p # <<>> /\ NodeAt(t, Parent(p)).name = "VarDecl"
                    /\ NodeAt(t, p).name \in ExprNames}

Init ==
  /\ tree \in Docs
  /\ cache = <<>>
  /\ ret = Null
  /\ edits = 0
  /\ queries = 0
  /\ fresh = {}
  /\ call = Null
  /\ out = Null

\* A collaborator asks getDefinition(state, node) for the node at p.
Query(p) ==
  /\ queries < MaxQueries
  /\ LET r == getDefinition(tree, cache, p) IN
       /\ cache' = r.c
       /\ ret' = [node |-> p, def |-> r.v,
                  hit |-> p \in DOMAIN cache /\ cache[p] # Null]
       /\ fresh' = fresh \cup (DOMAIN r.c \ DOMAIN cache)
  /\ queries' = queries + 1
  /\ UNCHANGED <<tree, edits, call, out>>

\* The user replaces the initializer at p by e and the document is parsed
\* again.  The new tree shares the nodes outside the changed range with the
\* old one when the parser reuses them, and the memo, which is keyed by
\* node identity and never cleared, then still holds their entries.
Edit(p, e, reuse) ==
  /\ edits < MaxEdits
  /\ NodeAt(tree, p) # e
  /\ tree' = Replace(tree, p, e)
  /\ cache' = IF reuse
                THEN [q \in {q \in DOMAIN cache : ~IsPrefix(q, p) /\ ~IsPrefix(p, q)}
                        |-> cache[q]]
                ELSE <<>>
  /\ ret' = Null
  /\ fresh' = {}
  /\ edits' = edits + 1
  /\ UNCHANGED <<queries, call, out>>

Next ==
  \/ \E p \in Paths(tree) : Query(p)
  \/ \E p \in Initializers(tree), e \in Inits, reuse \in BOOLEAN : Edit(p, e, reuse)

Spec == Init /\ [][Next]_vars

(***************************************************************************)
(* Properties of the editor session                                        *)
(***************************************************************************)
\* The type a document consisting of the expression body alone resolves to,
\* computed against an empty memo.
TypeOf(body) ==
  LET r == getDefinition(Script(<<>>, body), <<>>, <<1>>) IN
  IF r.ok THEN r.v ELSE Raise

\* The current document's expression.
Body == NodeAt(tree, <<Len(tree.kids)>>)

\* C1: every getDefinition query returns a Definition, never null and never
\* by raising; a selector whose field getMember does not find has type any.
C1_GetDefinitionTotal ==
  ret # Null =>
    /\ ret.def # Raise
    /\ ret.def # Null
    /\ "type" \in DOMAIN ret.def

\* C2: with x of type optional<int>, the conditional `x == nil ? 0 : x` has
\* type int.
C2_EqNilUnwrap ==
  ( /\ ret # Null
    /\ ret.node = <<1>>
    /\ tree = Script(<<>>, Conditional(Binary(VarName("x"), "CompareOp", "==", NilLit),
                                       Integer("0"), VarName("x"))) )
  => Ty(ret.def) = "int"

\* The arguments written between the parentheses of an Arguments node.
ArgExprs(arguments) ==
  SelectSeq(arguments.kids, LAMBDA k : k.name \in ExprNames)

\* The direct call f(a, args) a pipe expression a | f(args) stands for.
Unpipe(pipe) ==
  CallExpr(pipe.kids[2].kids[1], <<pipe.kids[1]>> \o ArgExprs(pipe.kids[2].kids[2]))

\* C3: the type of a pipe expression `a | f(args)`, and of the call on its
\* right-hand side, is the type of the direct call `f(a, args)`.
C3_PipeEquivalence ==
  ( /\ ret # Null
    /\ Body.name = "PipeExpr"
    /\ ret.node \in {<<1>>, <<1, 2>>} )
  => ret.def = TypeOf(Unpipe(Body))

\* C3 witness: `arr | filter(# > 2)` has been resolved to slice<int>, the
\* type of `filter(arr, # > 2)`.
C3_Witness ==
  /\ ret # Null
  /\ ret.node = <<1>>
  /\ Body = PipeExpr(VarName("arr"), VarName("filter"),
                     <<Binary(PointerLit("#"), "CompareOp", ">", Integer("2"))>>)
  /\ Ty(ret.def) = "slice"
  /\ Ty(ret.def.item) = "int"
  /\ ret.def = TypeOf(CallExpr(VarName("filter"),
                 <<VarName("arr"), Binary(PointerLit("#"), "CompareOp", ">", Integer("2"))>>))

\* The paths of the argument expressions of the call at p, the pipe source
\* first when the call is the right-hand side of a pipe.
CallArgPaths(p) ==
  LET arguments == NodeAt(tree, p \o <<2>>)
      own == SelectSeq([i \in 1..Len(arguments.kids) |-> i],
                       LAMBDA i : arguments.kids[i].name \in ExprNames)
      written == [i \in 1..Len(own) |-> p \o <<2, own[i]>>]
  IN IF p # <<>> /\ NodeAt(tree, Parent(p)).name = "PipeExpr"
       THEN <<Parent(p) \o <<1>>>> \o written
       ELSE written

\* C4: a call of the built-in map whose first argument has type slice<int>
\* and whose predicate has type bool has type slice<bool>.
C4_MapUnification ==
  \A p \in {<<1>>, <<1, 2>>} :
    ( /\ ret # Null
      /\ ret.node = p
      /\ p \in Paths(tree)
      /\ NodeAt(tree, p).name = "CallExpr"
      /\ NodeAt(tree, p \o <<1>>) = VarName("map")
      /\ Len(CallArgPaths(p)) = 2
      /\ \A i \in 1..2 : CallArgPaths(p)[i] \in DOMAIN cache
      /\ Ty(cache[CallArgPaths(p)[1]]) = "slice"
      /\ Ty(Fld(cache[CallArgPaths(p)[1]], "item")) = "int"
      /\ Ty(cache[CallArgPaths(p)[2]]) = "bool" )
    => /\ Ty(ret.def) = "slice"
       /\ ret.def.item = BoolT

\* C4 witness: `map(arr, # > 2)` has been resolved to slice<bool>.
C4_Witness ==
  /\ ret # Null
  /\ ret.node = <<1>>
  /\ Body = CallExpr(VarName("map"),
              <<VarName("arr"), Binary(PointerLit("#"), "CompareOp", ">", Integer("2"))>>)
  /\ Ty(cache[<<1, 2, 2>>]) = "slice"
  /\ Ty(cache[<<1, 2, 4>>]) = "bool"
  /\ Ty(ret.def) = "slice"
  /\ ret.def.item = BoolT

\* C5: an empty array literal has type slice<any>; a non-empty one has type
\* slice<T>, T the first element's type, when every other element isEquals
\* the first, and slice<any> otherwise.
C5_ArrayLiteral ==
  ( /\ ret # Null
    /\ ~ret.hit
    /\ NodeAt(tree, ret.node).name = "Array" )
  => LET n == Len(NodeAt(tree, ret.node).kids)
         el(i) == cache[ret.node \o <<i>>]
     IN /\ n = 0 => ret.def = Slice(AnyT)
        /\ (n > 0 /\ \A i \in 2..n : isEquals(el(1), el(i))) => ret.def = Slice(el(1))
        /\ (n > 0 /\ \E i \in 2..n : ~isEquals(el(1), el(i))) => ret.def = Slice(AnyT)
        /\ NodeAt(tree, ret.node) = ArrayExpr(<<Integer("1"), Integer("1"), Integer("1")>>)
             => ret.def = Slice(IntT)
        /\ NodeAt(tree, ret.node) = ArrayExpr(<<Integer("1"), StringLit>>)
             => ret.def = Slice(AnyT)

\* C5 witness: `[1, 2.5, 1]`, whose other elements isEquals the first, has
\* been resolved to a slice of the first element's type.
C5_Witness ==
  /\ ret # Null
  /\ ret.node = <<1>>
  /\ ~ret.hit
  /\ Body = ArrayExpr(<<Integer("1"), FloatLit, Integer("1")>>)
  /\ isEquals(cache[<<1, 1>>], cache[<<1, 2>>])
  /\ cache[<<1, 1>>] # cache[<<1, 2>>]
  /\ ret.def = Slice(cache[<<1, 1>>])

\* C6: within one snapshot, a getDefinition call served from the memo returns
\* the Definition the uncached computation `definition` produces for the node.
C6_MemoIdempotence ==
  \A p \in fresh :
    (p \in DOMAIN cache /\ cache[p] # Null) =>
      /\ getDefinition(tree, cache, p).v = definition(tree, cache, p).v
      /\ edits = 0 => getDefinition(tree, cache, p).v = definition(tree, <<>>, p).v

\* C6 witness: a second query of a node in the same snapshot was served from
\* the memo and returned what `definition` computes, a type other than any.
C6_Witness ==
  /\ ret # Null
  /\ ret.hit
  /\ ret.node \in fresh
  /\ Ty(ret.def) # "any"
  /\ ret.def = definition(tree, cache, ret.node).v

\* C7: a query against the current snapshot never returns a Definition that
\* differs from what the current snapshot implies, whatever queries and
\* edits came before.
C7_NoStaleDefinition ==
  ret # Null =>
    ret.def = LET r == getDefinition(tree, <<>>, ret.node) IN
              IF r.ok THEN r.v ELSE Raise


\* The declarations of the current document that declare name v.
Declaring(t, v) == {i \in 1..Len(t.kids) - 1 : t.kids[i].kids[1].text = v}

Max(S) == CHOOSE x \in S : \A y \in S : x >= y

\* C12: when the document declares a name twice or more in front of its
\* expression and the name is not a variable of the attached scope, a
\* reference to it resolves to the latest declaration: it has the type of
\* that declaration's initializer.
C12_LatestLetWins ==
  ( /\ ret # Null
    /\ edits = 0
    /\ ret.node = <<Len(tree.kids)>>
    /\ Body.name = "VarName"
    /\ Body.text \notin DOMAIN Scope.variables
    /\ Cardinality(Declaring(tree, Body.text)) >= 2 )
  => /\ ret.def # Raise
     /\ ret.def # Null
     /\ Ty(ret.def) = Ty(TypeOf(tree.kids[Max(Declaring(tree, Body.text))].kids[2]))
\* The node the last query asked about.
Referenced == NodeAt(tree, ret.node)

\* C16, of a reference whose Definition the query computed instead of
\* reading it from the memo: a reference to a name of the attached scope
\* resolves to the scope's entry, a declaration of the same name in front
\* of it notwithstanding; a reference to any other name resolves to a
\* declaration of that name in front of it when there is one, and to any
\* when there is none.
C16_VariableLookupOrder ==
  (ret # Null /\ ~ret.hit /\ Referenced.name = "VarName") =>
    IF Referenced.text \in DOMAIN Scope.variables
      THEN ret.def = Over(Scope.variables[Referenced.text], [name |-> Referenced.text])
    ELSE IF Declaring(tree, Referenced.text) # {}
      THEN /\ ret.def # Raise
           /\ ret.def # Null
           /\ Fld(ret.def, "name") = Referenced.text
           /\ \E i \in Declaring(tree, Referenced.text) :
                Ty(ret.def) = Ty(TypeOf(tree.kids[i].kids[2]))
    ELSE ret.def = AnyT

\* C16 witness: in `let n = 'a'; n`, where n is a host variable of type
\* int, the reference has been resolved to the host's int.
C16_Witness ==
  /\ ret # Null
  /\ ~ret.hit
  /\ tree = Script(<<VarDecl("n", StringLit)>>, VarName("n"))
  /\ ret.node = <<2>>
  /\ ret.def = Named("n", IntT)

(***************************************************************************)
(* Type equality on its own: isEquals applied to pairs of Definitions      *)
(***************************************************************************)
MaxTypeDepth == 1    \* deepest nesting of the Definitions compared

Scalars == {IntT, FloatT, T("int64"), StringT, BoolT, NilT, AnyT}

\* The Definitions nested at most d deep.
RECURSIVE TypesUpTo(_)
TypesUpTo(d) ==
  IF d = 0 THEN Scalars
  ELSE LET sub == TypesUpTo(d - 1) IN
       Scalars \cup {Defined("User"), Defined("Base")}
         \cup {Slice(i) : i \in sub} \cup {Array(i, 2) : i \in sub}
         \cup {Channel(i) : i \in sub} \cup {Optional(i) : i \in sub}
         \cup {Pointer(i) : i \in sub} \cup {Map(StringT, i) : i \in sub}

\* The session variables of a behaviour that only applies a function.
NoSession ==
  /\ tree = Script(<<>>, NilLit)
  /\ cache = <<>>
  /\ ret = Null
  /\ edits = 0
  /\ queries = 0
  /\ fresh = {}

\* A caller holds two Definitions a and b to compare.
InitEquals ==
  /\ NoSession
  /\ call \in {[fn |-> "isEquals", a |-> a, b |-> b] :
                 a \in TypesUpTo(MaxTypeDepth), b \in TypesUpTo(MaxTypeDepth)}
  /\ out = Null

\* isEquals(a, b) returns.
IsEquals ==
  /\ call.fn = "isEquals"
  /\ out = Null
  /\ out' = [v |-> isEquals(call.a, call.b)]
  /\ UNCHANGED <<tree, cache, ret, edits, queries, fresh, call>>

NextEquals == IsEquals

SpecEquals == InitEquals /\ [][NextEquals]_vars

\* C9: isEquals on Definitions of different kinds is true exactly when both
\* are numeric, or one of the two, in either position, is optional or
\* pointer and the other is nil.
C9_DifferentKinds ==
  (out # Null /\ call.fn = "isEquals" /\ Ty(call.a) # Ty(call.b)) =>
    out.v = ( \/ (isNumber(call.a) /\ isNumber(call.b))
              \/ (Ty(call.a) \in {"optional", "pointer"} /\ Ty(call.b) = "nil")
              \/ (Ty(call.b) \in {"optional", "pointer"} /\ Ty(call.a) = "nil") )

\* C10: isEquals on two Definitions of the same item-carrying kind (channel,
\* slice, array) is true if and only if their item types are isEquals.
C10_ItemKinds ==
  ( /\ out # Null
    /\ call.fn = "isEquals"
    /\ Ty(call.a) = Ty(call.b)
    /\ Ty(call.a) \in {"chan", "slice", "array"} )
  => out.v = isEquals(call.a.item, call.b.item)

(***************************************************************************)
(* Member lookup on its own: getMember applied to struct registries        *)
(***************************************************************************)
MaxFields == 2    \* most fields of the struct looked into

Embedded(name, t) == Over(t, [name |-> name, embedded |-> TRUE])

\* The fields struct A is declared from: plain fields, embedded fields of a
\* named type (B is registered, C may not be), an embedded field of inline
\* struct type, and a plain field of a named type.
FieldPool ==
  { Named("X", StringT), Named("Y", IntT),
    Embedded("B", Defined("B")), Embedded("C", Defined("C")),
    Embedded("E", Struct(<<Named("X", BoolT)>>)),
    Named("F", Defined("B")) }

FieldLists ==
  {fs \in SeqsUpTo(FieldPool, MaxFields) :
     \A i, j \in 1..Len(fs) : i # j => fs[i].name # fs[j].name}

Registries ==
  {[variables |-> <<>>,
    types |-> Over([A |-> Over(Named("A", Struct(fs)), ms), B |-> Named("B", b)], c)] :
     fs \in FieldLists,
     ms \in {<<>>, [methods |-> [Y |-> Named("Y", Func(<<>>, <<StringT>>))]]},
     b \in {Struct(<<Named("X", IntT)>>), Struct(<<Named("Y", IntT)>>),
            Struct(<<Embedded("A", Defined("A"))>>)},
     c \in {<<>>, [C |-> Named("C", Struct(<<Named("X", FloatT), Named("Y", FloatT)>>))]}}

\* A caller holds a scope s, type A of it, by name or resolved, and a
\* member name.
InitMember ==
  /\ NoSession
  /\ call \in UNION {{[fn |-> "getMember", s |-> s, src |-> src, name |-> name] :
                         src \in {Defined("A"), s.types.A}, name \in {"X", "Y"}} :
                       s \in Registries}
  /\ out = Null

\* getMember(s, src, name) returns or raises.
GetMember ==
  /\ call.fn = "getMember"
  /\ out = Null
  /\ out' = [v |-> getMember(call.s, call.src, call.name)]
  /\ UNCHANGED <<tree, cache, ret, edits, queries, fresh, call>>

NextMember == GetMember

SpecMember == InitMember /\ [][NextMember]_vars

\* The member n that type t exposes, null when it exposes none: a direct
\* field, else a method, else what the first embedded field in declaration
\* order exposes, a named type standing for what the registry holds for it.
RECURSIVE Exposed(_, _, _, _)
RECURSIVE ExposedEmbedded(_, _, _, _, _)
ExposedEmbedded(s, t, n, seen, i) ==
  IF i > Len(t.fields) THEN Null
  ELSE LET m == IF IsSet(t.fields[i], "embedded")
                  THEN Exposed(s, t.fields[i], n, seen) ELSE Null
       IN IF m # Null THEN m ELSE ExposedEmbedded(s, t, n, seen, i + 1)

Exposed(s, t, n, seen) ==
  IF t \in seen THEN Null
  ELSE IF Ty(t) = "defined"
    THEN IF t.typeName \in DOMAIN s.types
           THEN Exposed(s, s.types[t.typeName], n, seen \cup {t}) ELSE Null
  ELSE IF Ty(t) = "struct" /\ \E i \in 1..Len(t.fields) : t.fields[i].name = n
    THEN t.fields[Min({i \in 1..Len(t.fields) : t.fields[i].name = n})]
  ELSE IF "methods" \in DOMAIN t /\ n \in DOMAIN t.methods THEN t.methods[n]
  ELSE IF Ty(t) = "struct" THEN ExposedEmbedded(s, t, n, seen \cup {t}, 1)
  ELSE Null

\* C8: for a struct, a direct field named n is returned in preference to any
\* member n promoted from an embedded field; when n is reachable through
\* embedded fields only, the member of the first embedded field in
\* declaration order that exposes n is returned.
C8_EmbeddingPrecedence ==
  (out # Null /\ call.fn = "getMember" /\ Ty(call.src) = "struct") =>
    LET fs == call.src.fields
        direct == {i \in 1..Len(fs) : fs[i].name = call.name}
        method == "methods" \in DOMAIN call.src /\ call.name \in DOMAIN call.src.methods
        exposing == {i \in 1..Len(fs) :
                       /\ IsSet(fs[i], "embedded")
                       /\ Exposed(call.s, fs[i], call.name, {call.src}) # Null}
    IN /\ direct # {} => out.v = fs[Min(direct)]
       /\ (direct = {} /\ ~method /\ exposing # {}) =>
            out.v = Exposed(call.s, fs[Min(exposing)], call.name, {call.src})

(***************************************************************************)
(* The generic resolver on its own                                         *)
(***************************************************************************)
MaxArgs == 2    \* most call-site arguments

\* builtIn.variables.get and builtIn.variables.first
builtInGet ==
  [name |-> "get", type |-> "func",
   generics |-> [I |-> <<AnyT>>,
                 V |-> <<StringT, Slice(Generic("I")), Map(AnyT, Generic("I"))>>,
                 T |-> <<IntT, StringT>>],
   args |-> <<Named("v", Generic("V")), Named("index", Generic("T"))>>,
   returns |-> <<Optional(Generic("I"))>>]

builtInFirst ==
  [name |-> "first", type |-> "func",
   generics |-> [T |-> <<AnyT>>],
   args |-> <<Named("array", Slice(Generic("T")))>>,
   returns |-> <<Optional(Generic("T"))>>]

\* Generic functions of a host environment: a generic bound at two
\* parameters, a variadic one, a constrained one, and one with a generic
\* that no parameter binds.
hostFunctions ==
  { [name |-> "pair", type |-> "func", generics |-> [T |-> <<AnyT>>],
     args |-> <<Named("a", Generic("T")), Named("b", Generic("T"))>>,
     returns |-> <<Generic("T")>>],
    [name |-> "coalesce", type |-> "func", generics |-> [T |-> <<AnyT>>],
     args |-> <<[name |-> "vs", type |-> "generic", generic |-> "T", variadic |-> TRUE]>>,
     returns |-> <<Generic("T")>>],
    [name |-> "clamp", type |-> "func", generics |-> [T |-> <<NumberT, StringT>>],
     args |-> <<Named("v", Generic("T")), Named("lo", Generic("T"))>>,
     returns |-> <<Generic("T")>>],
    [name |-> "index", type |-> "func",
     generics |-> [K |-> <<StringT, IntT>>, V |-> <<AnyT>>, D |-> <<AnyT>>],
     args |-> <<Named("m", Map(Generic("K"), Generic("V"))), Named("k", Generic("K"))>>,
     returns |-> <<Pointer(Generic("V")), Map(Generic("K"), Slice(Generic("D")))>>] }

GenericFuncs ==
  {builtInVariables[n] : n \in {"map", "filter", "reduce", "int", "now"}}
    \cup {builtInGet, builtInFirst} \cup hostFunctions

\* The Definitions an argument of a call resolves to: null for a selector
\* of a member that getMember does not find, the built-in's own func
\* Definition for a reference to a built-in.
ArgTypes ==
  {IntT, StringT, BoolT, AnyT, Slice(IntT), Slice(StringT), Map(StringT, IntT),
   Named("n", IntT), builtInVariables["filter"], Null}

\* A caller holds a func Definition, the Definitions of the arguments of a
\* call to it, and the callee's name.
InitGenerics ==
  /\ NoSession
  /\ call \in {[fn |-> "resolveFuncGenerics", f |-> f, args |-> args, name |-> f.name] :
                 f \in GenericFuncs, args \in SeqsUpTo(ArgTypes, MaxArgs)}
  /\ out = Null

\* resolveFuncGenerics(f, args, name) returns or raises.
ResolveFuncGenerics ==
  /\ call.fn = "resolveFuncGenerics"
  /\ out = Null
  /\ out' = [v |-> resolveFuncGenerics(call.f, call.args, call.name)]
  /\ UNCHANGED <<tree, cache, ret, edits, queries, fresh, call>>

NextGenerics == ResolveFuncGenerics

SpecGenerics == InitGenerics /\ [][NextGenerics]_vars


\* The declared parameter that argument i of a call to f is matched with,
\* and whether the binding loop gets as far as argument i.
ParamOf(f, i) == IF i <= Len(f.args) THEN f.args[i] ELSE f.args[Len(f.args)]

Processed(f, i) ==
  /\ Len(f.args) > 0
  /\ \A j \in 1..i : j <= Len(f.args) \/ IsSet(f.args[Len(f.args)], "variadic")

\* What argument i alone binds: its expected type destructured against its
\* actual type.
BoundBy(f, args, name, i) ==
  collectGenerics(
    IF isPredicativeFunc(name) /\ Ty(ParamOf(f, i)) = "func" /\ Len(ParamOf(f, i).returns) = 1
      THEN ParamOf(f, i).returns[1] ELSE ParamOf(f, i),
    args[i])

\* The arguments that bind generic variable g.
Binders(f, args, name, g) ==
  {i \in 1..Len(args) : Processed(f, i) /\ g \in DOMAIN BoundBy(f, args, name, i)}

\* What the earliest argument that binds g binds it to.
FirstBound(f, args, name, g) ==
  BoundBy(f, args, name, Min(Binders(f, args, name, g)))[g]

\* Two arguments bind g to different types.
Conflicting(f, args, name, g) ==
  \E i, j \in Binders(f, args, name, g) :
    BoundBy(f, args, name, i)[g] # BoundBy(f, args, name, j)[g]

\* Definition d carries type x: every field of x with x's value.
Carries(d, x) == d # Null /\ \A k \in DOMAIN x : k \in DOMAIN d /\ d[k] = x[k]

\* Every parameter and return of f declared as the bare generic g carries
\* type x in the resolved function r.
UsesFor(r, f, g, x) ==
  /\ r # Raise
  /\ \A k \in 1..Len(f.args) :
       (Ty(f.args[k]) = "generic" /\ f.args[k].generic = g) => Carries(r.args[k], x)
  /\ \A k \in 1..Len(f.returns) :
       (Ty(f.returns[k]) = "generic" /\ f.returns[k].generic = g) => Carries(r.returns[k], x)

\* The constraint list of g accepts type x.
Accepts(f, g, x) ==
  \E i \in 1..Len(f.generics[g]) :
    isUnknownType(f.generics[g][i]) \/ isEquals(x, f.generics[g][i])

\* C11 as stated: whenever two arguments bind generic variable G to
\* different types, the resolved function uses for G the type X that the
\* earlier argument binds, and nothing is raised.
C11_EarliestWinsAlways ==
  (out # Null /\ call.fn = "resolveFuncGenerics" /\ "generics" \in DOMAIN call.f) =>
    \A g \in DOMAIN call.f.generics :
      Conflicting(call.f, call.args, call.name, g) =>
        UsesFor(out.v, call.f, g, FirstBound(call.f, call.args, call.name, g))

\* C11, amended: whenever two arguments bind generic variable G to
\* different types, the type X that the earlier argument binds decides G:
\* the resolved function uses X for G when G's constraint list accepts X,
\* and the first entry of the constraint list otherwise; nothing is raised.
C11_EarliestWins ==
  (out # Null /\ call.fn = "resolveFuncGenerics" /\ "generics" \in DOMAIN call.f) =>
    \A g \in DOMAIN call.f.generics :
      Conflicting(call.f, call.args, call.name, g) =>
        UsesFor(out.v, call.f, g,
                IF Accepts(call.f, g, FirstBound(call.f, call.args, call.name, g))
                  THEN FirstBound(call.f, call.args, call.name, g)
                  ELSE call.f.generics[g][1])

\* C11 witness: pair(int, string), whose two arguments bind T differently,
\* resolved with T = int.
C11_Witness ==
  /\ out # Null
  /\ call.fn = "resolveFuncGenerics"
  /\ call.f.name = "pair"
  /\ call.args = <<IntT, StringT>>
  /\ Cardinality(Binders(call.f, call.args, call.name, "T")) = 2
  /\ out.v # Raise
  /\ out.v.returns = <<IntT>>

(***************************************************************************)
(* Type resolution on its own: getMember, getMembers and getBaseType       *)
(* applied to registries that may leave a name out or refer to themselves  *)
(***************************************************************************)
\* Registries whose type A is a name for another type.
AliasRegistries ==
  {[variables |-> <<>>, types |-> [A |-> Named("A", a), B |-> Named("B", b)]] :
     a \in {Defined("A"), Defined("B"), Defined("Z")},
     b \in {Defined("A"), Defined("Z"), Struct(<<Named("X", IntT)>>)}}

TypeRegistries == Registries \cup AliasRegistries

\* A caller holds a scope and a type of it, by a name the scope has (A),
\* by one it has not (Z), or resolved.
InitTypes ==
  /\ NoSession
  /\ call \in UNION {
       {[fn |-> "getMember", s |-> s, src |-> src, name |-> name] :
          src \in {Defined("A"), Defined("Z"), s.types.A}, name \in {"X", "Y"}}
       \cup {[fn |-> "getMembers", s |-> s, src |-> src] :
               src \in {Defined("A"), Defined("Z"), s.types.A}}
       \cup {[fn |-> "getBaseType", s |-> s, t |-> t, odd |-> FALSE] :
               t \in {Defined("A"), Defined("Z"), s.types.A}}
       : s \in TypeRegistries}
  /\ out = Null

\* getMembers(s, src) returns or raises.
GetMembers ==
  /\ call.fn = "getMembers"
  /\ out = Null
  /\ out' = getMembers(call.s, call.src)
  /\ UNCHANGED <<tree, cache, ret, edits, queries, fresh, call>>

\* One turn of the loop of getBaseType: t = s.types[t.typeName].  Of the
\* number of turns taken so far the call record keeps whether it is odd.
GetBaseTypeLoop ==
  /\ call.fn = "getBaseType"
  /\ out = Null
  /\ Ty(call.t) = "defined" /\ call.t.typeName \in DOMAIN call.s.types
  /\ call' = [call EXCEPT !.t = call.s.types[call.t.typeName], !.odd = ~call.odd]
  /\ UNCHANGED <<tree, cache, ret, edits, queries, fresh, out>>

\* getBaseType leaves its loop and returns t.
GetBaseTypeReturn ==
  /\ call.fn = "getBaseType"
  /\ out = Null
  /\ ~(Ty(call.t) = "defined" /\ call.t.typeName \in DOMAIN call.s.types)
  /\ out' = [v |-> call.t]
  /\ UNCHANGED <<tree, cache, ret, edits, queries, fresh, call>>

NextTypes == GetMember \/ GetMembers \/ GetBaseTypeLoop \/ GetBaseTypeReturn

\* A call that can take a step takes it.
SpecTypes == InitTypes /\ [][NextTypes]_vars /\ WF_vars(NextTypes)

\* C13: getMember of a named type that the registry does not hold returns
\* null, for every member name.
C13_UnresolvableIsNull ==
  ( /\ out # Null
    /\ call.fn = "getMember"
    /\ Ty(call.src) = "defined"
    /\ call.src.typeName \notin DOMAIN call.s.types )
  => out.v = Null

\* The call in progress has returned a value.
Returned == out # Null /\ (IF "ok" \in DOMAIN out THEN out.ok ELSE out.v # Raise)

\* C14: every call of getMember, getMembers and getBaseType returns, for
\* every registry, including the registries in which a named type is a name
\* for itself or a struct embeds itself, directly or through other named
\* types.
C14_ResolutionTerminates == <>Returned

(***************************************************************************)
(* The argument rule of the linter                                         *)
(***************************************************************************)
\* A diagnostic: its message, without the rendered type names, and the
\* node it is reported at.
Diagnostic(message, at) == [message |-> message, at |-> at]

\* The diagnostic `Expected n arguments, but got m` (linter lines 147-156)
Expected(n, m, at) ==
  [message |-> "Expected arguments", at |-> at, expected |-> n, got |-> m]

\* The parameter argument idx (0-based) is checked against (linter lines
\* 174-175); undefined when a predicate parameter declares no return.
expectedArg(func, funcName, idx) ==
  IF isPredicativeFunc(funcName) /\ Ty(ParamOf(func, idx + 1)) = "func"
    THEN (IF Len(ParamOf(func, idx + 1).returns) > 0
            THEN ParamOf(func, idx + 1).returns[1] ELSE Null)
    ELSE ParamOf(func, idx + 1)

\* The test of the loop over the arguments (linter lines 170-177)
notAssignable(func, funcName, argsDefs, idx) ==
  /\ ~isUnknownType(argsDefs[idx + 1])
  /\ ~isEquals(argsDefs[idx + 1], expectedArg(func, funcName, idx))

\* linter lines 169-185: the first argument that is not assignable
invalidArgsResolved(funcName, args, argsDefs, func) ==
  IF func = Raise THEN Thrown(argsDefs.c)
  ELSE IF \E idx \in 0..Len(argsDefs.v) - 1 : notAssignable(func, funcName, argsDefs.v, idx)
    THEN R(<<[message |-> "is not assignable",
              at |-> args[1 + Min({idx \in 0..Len(argsDefs.v) - 1 :
                                     notAssignable(func, funcName, argsDefs.v, idx)})],
              arg |-> argsDefs.v[1 + Min({idx \in 0..Len(argsDefs.v) - 1 :
                                     notAssignable(func, funcName, argsDefs.v, idx)})],
              expected |-> expectedArg(func, funcName,
                             Min({idx \in 0..Len(argsDefs.v) - 1 :
                                    notAssignable(func, funcName, argsDefs.v, idx)}))]>>,
           argsDefs.c)
    ELSE R(<<>>, argsDefs.c)

\* linter lines 166-167
invalidArgsTyped(def, funcName, args, argsDefs) ==
  IF ~argsDefs.ok THEN argsDefs
  ELSE invalidArgsResolved(funcName, args, argsDefs,
                           resolveFuncGenerics(def, argsDefs.v, funcName))

\* linter lines 158-164: a comma that no expression follows
danglingCommas(t, argsNode) ==
  SelectSeq(getChildren(t, argsNode, {","}),
            LAMBDA comma :
              \/ comma[Len(comma)] = Len(NodeAt(t, argsNode).kids)
              \/ NodeAt(t, argsNode).kids[comma[Len(comma)] + 1].name \notin ExprNames)

\* linter lines 144-167, def the callee's func Definition and args the
\* argument nodes
invalidArgsCounted(t, c, argsNode, def, funcName, args) ==
  IF Len(args) = 0 /\ Len(def.args) = 0 THEN R(<<>>, c)
  ELSE IF Len(args) < Cardinality({i \in 1..Len(def.args) :
                                     "required" \notin DOMAIN def.args[i] \/ def.args[i].required})
    THEN R(<<Expected(Cardinality({i \in 1..Len(def.args) :
                         "required" \notin DOMAIN def.args[i] \/ def.args[i].required}),
                      Len(args), argsNode)>>, c)
  ELSE IF Len(def.args) = 0 THEN Thrown(c)
  ELSE IF Len(args) > Len(def.args) /\ ~IsSet(def.args[Len(def.args)], "variadic")
    THEN R(<<Expected(Len(def.args), Len(args), argsNode)>>, c)
  ELSE IF Len(danglingCommas(t, argsNode)) > 0
    THEN R(<<Diagnostic("Unexpected ','", danglingCommas(t, argsNode)[1])>>, c)
  ELSE invalidArgsTyped(def, funcName, args, getDefinitions(t, c, args, <<>>))

\* linter lines 135-143, def the callee's Definition
invalidArgsOf(t, p, def) ==
  IF ~def.ok THEN def
  ELSE IF def.v = Null THEN Thrown(def.c)
  ELSE IF Ty(def.v) # "func" THEN R(<<>>, def.c)
  ELSE IF getChild(t, p, {"Arguments"}) = NoNode THEN Thrown(def.c)
  ELSE invalidArgsCounted(t, def.c, getChild(t, p, {"Arguments"}), def.v,
                          sliceString(NodeAt(t, getChild(t, p, ExprNames))),
                          callArguments(t, p))

\* noInvalidArgs(state, node) for the CallExpr node at p
noInvalidArgs(t, c, p) == invalidArgsOf(t, p, getDefinition(t, c, getChild(t, p, ExprNames)))

\* The documents the rule is run on: calls, direct and piped.
LintDocs ==
  {Script(<<>>, body) :
     body \in DirectDocs \cup PipeDocs
       \cup {CallExpr(VarName("string"), <<a>>) : a \in {VarName("n"), VarName("a"), StringLit}}
       \cup {PipeExpr(VarName("n"), VarName("string"), <<>>)}}

InitLint ==
  /\ tree \in LintDocs
  /\ cache = <<>>
  /\ ret = Null
  /\ edits = 0
  /\ queries = 0
  /\ fresh = {}
  /\ call = Null
  /\ out = Null

\* The linter runs the rule on the CallExpr node at p.
NoInvalidArgs(p) ==
  /\ out = Null
  /\ NodeAt(tree, p).name = "CallExpr"
  /\ call' = [fn |-> "noInvalidArgs", node |-> p]
  /\ out' = [ok |-> noInvalidArgs(tree, cache, p).ok, v |-> noInvalidArgs(tree, cache, p).v]
  /\ cache' = noInvalidArgs(tree, cache, p).c
  /\ UNCHANGED <<tree, ret, edits, queries, fresh>>

NextLint == \E p \in Paths(tree) : NoInvalidArgs(p)

SpecLint == InitLint /\ [][NextLint]_vars

\* C15: the rule reports no argument as not assignable whose type is
\* unknown or whose expected parameter type, after the substitution of the
\* generics, is unknown.
C15_UnknownIsCompatible ==
  (out # Null /\ call # Null /\ call.fn = "noInvalidArgs" /\ out.ok) =>
    \A i \in 1..Len(out.v) :
      out.v[i].message = "is not assignable" =>
        /\ ~isUnknownType(out.v[i].arg)
        /\ ~isUnknownType(out.v[i].expected)


\* The callee of the call the argument rule was run on, as the scope
\* declares it.
Callee == TypeOf(NodeAt(tree, call.node \o <<1>>))

\* The number of effective arguments of that call, the pipe source counted.
Supplied == Len(callArguments(tree, call.node))

\* C28: for a call of a func of n parameters, the last of them not variadic,
\* with m > n effective arguments, the argument rule returns the error
\* `Expected n arguments, but got m` and does not raise, for every n >= 0.
C28_TooManyArguments ==
  ( /\ out # Null /\ call # Null /\ call.fn = "noInvalidArgs"
    /\ Callee \notin {Null, Raise}
    /\ Ty(Callee) = "func"
    /\ Supplied > Len(Callee.args)
    /\ (Len(Callee.args) > 0 => ~IsSet(Callee.args[Len(Callee.args)], "variadic")) )
  => /\ out.ok
     /\ Len(out.v) = 1
     /\ out.v[1].message = "Expected arguments"
     /\ out.v[1].expected = Len(Callee.args)
     /\ out.v[1].got = Supplied
\* The struct whose members a getMembers call lists: its argument, or what
\* the registry holds for the argument's name.
Listed == resolveRef(call.s, call.src)

\* C17: when getMembers lists a struct, or a named struct type, that has a
\* direct field or a method of its own named n and an embedded field whose
\* type exposes a member named n as well, the entry for n is the struct's
\* own member.
C17_DirectOverPromoted ==
  (out # Null /\ call.fn = "getMembers" /\ out.ok /\ Ty(Listed) = "struct") =>
    \A n \in {"X", "Y"} :
      ( /\ \/ FieldIdx(Listed, n) # {}
           \/ ("methods" \in DOMAIN Listed /\ n \in DOMAIN Listed.methods)
        /\ \E i \in 1..Len(Listed.fields) :
             /\ IsSet(Listed.fields[i], "embedded")
             /\ Listed.fields[i].name # n
             /\ Exposed(call.s, Listed.fields[i], n, {Listed}) # Null )
      => /\ n \in DOMAIN out.v
         /\ out.v[n] = IF FieldIdx(Listed, n) # {}
                         THEN Listed.fields[Min(FieldIdx(Listed, n))]
                         ELSE Listed.methods[n]

\* Definition d is or holds a generic placeholder, through the item of a
\* slice, array, channel or optional, the key and value of a map, the
\* target of a pointer, and the parameters and returns of a func.
RECURSIVE HasPlaceholder(_)
HasPlaceholder(d) ==
  IF d = Null THEN FALSE
  ELSE CASE Ty(d) = "generic" -> TRUE
         [] Ty(d) \in {"slice", "array", "chan", "optional"} -> HasPlaceholder(Fld(d, "item"))
         [] Ty(d) = "map" -> HasPlaceholder(Fld(d, "key")) \/ HasPlaceholder(Fld(d, "value"))
         [] Ty(d) = "pointer" -> HasPlaceholder(Fld(d, "to"))
         [] Ty(d) = "func" ->
              \/ \E i \in 1..Len(d.args) : HasPlaceholder(d.args[i])
              \/ \E i \in 1..Len(d.returns) : HasPlaceholder(d.returns[i])
         [] OTHER -> FALSE

\* C18: for a func Definition that declares generics, the Definition that
\* resolveFuncGenerics returns has no generics field and holds no generic
\* placeholder in its parameters and returns.
C18_GenericsFree ==
  (out # Null /\ call.fn = "resolveFuncGenerics" /\ "generics" \in DOMAIN call.f) =>
    /\ out.v # Raise
    /\ "generics" \notin DOMAIN out.v
    /\ ~HasPlaceholder(out.v)

\* Resolved Definition r has type x wherever declared Definition t has the
\* placeholder of g: at t itself, or through the item of a slice, array,
\* channel or optional, the key and value of a map, the target of a
\* pointer, and the parameters and returns of a func.
RECURSIVE Instantiates(_, _, _, _)
Instantiates(r, t, g, x) ==
  IF t = Null THEN TRUE
  ELSE IF r = Null THEN ~HasPlaceholder(t)
  ELSE CASE Ty(t) = "generic" -> t.generic = g => Carries(r, x)
         [] Ty(t) \in {"slice", "array", "chan", "optional"} ->
              Instantiates(Fld(r, "item"), Fld(t, "item"), g, x)
         [] Ty(t) = "map" ->
              /\ Instantiates(Fld(r, "key"), Fld(t, "key"), g, x)
              /\ Instantiates(Fld(r, "value"), Fld(t, "value"), g, x)
         [] Ty(t) = "pointer" -> Instantiates(Fld(r, "to"), Fld(t, "to"), g, x)
         [] Ty(t) = "func" ->
              /\ Ty(r) = "func"
              /\ Len(r.args) = Len(t.args)
              /\ Len(r.returns) = Len(t.returns)
              /\ \A i \in 1..Len(t.args) : Instantiates(r.args[i], t.args[i], g, x)
              /\ \A i \in 1..Len(t.returns) : Instantiates(r.returns[i], t.returns[i], g, x)
         [] OTHER -> TRUE

\* C19: a generic variable that f declares and that no argument of the
\* call binds is any in the resolved function, at every occurrence of its
\* placeholder.
C19_UnboundIsAny ==
  (out # Null /\ call.fn = "resolveFuncGenerics" /\ "generics" \in DOMAIN call.f) =>
    \A g \in DOMAIN call.f.generics :
      Binders(call.f, call.args, call.name, g) = {} =>
        /\ out.v # Raise
        /\ Instantiates(out.v, call.f, g, AnyT)

\* C20: a generic variable that an argument binds to X is X in the resolved
\* function when its constraint list has an unknown entry or an entry
\* isEquals to X, and the first entry of its constraint list otherwise;
\* nothing is raised.
C20_ConstraintCoercion ==
  (out # Null /\ call.fn = "resolveFuncGenerics" /\ "generics" \in DOMAIN call.f) =>
    \A g \in DOMAIN call.f.generics :
      Binders(call.f, call.args, call.name, g) # {} =>
        /\ out.v # Raise
        /\ Instantiates(out.v, call.f, g,
             IF Accepts(call.f, g, FirstBound(call.f, call.args, call.name, g))
               THEN FirstBound(call.f, call.args, call.name, g)
               ELSE call.f.generics[g][1])

\* C20 witness: int(true), whose T is bound to bool and resolved to number.
C20_Witness ==
  /\ out # Null
  /\ call.fn = "resolveFuncGenerics"
  /\ call.f.name = "int"
  /\ call.args = <<BoolT>>
  /\ FirstBound(call.f, call.args, call.name, "T") = BoolT
  /\ ~Accepts(call.f, "T", BoolT)
  /\ out.v # Raise
  /\ out.v.args = <<Named("v", NumberT)>>

(***************************************************************************)
(* Properties of predicate scopes                                          *)
(***************************************************************************)
\* The node at p is the predicate argument of a call of the built-in named
\* f: the second effective argument, the pipe source counted first.
IsPredicateOf(p, f) ==
  /\ Len(p) >= 2
  /\ NodeAt(tree, Parent(Parent(p))).name = "CallExpr"
  /\ NodeAt(tree, Parent(Parent(p)) \o <<1>>) = VarName(f)
  /\ Len(CallArgPaths(Parent(Parent(p)))) >= 2
  /\ CallArgPaths(Parent(Parent(p)))[2] = p

\* C21: the scope getPredicateScope computes for the predicate argument of
\* a call of reduce has exactly the keys #index, # and #acc, whatever the
\* other arguments are.
C21_ReduceScopeKeys ==
  \A p \in Paths(tree) :
    (ret # Null /\ ret.node = p /\ IsPredicateOf(p, "reduce"))
    => /\ getPredicateScope(tree, cache, p).ok
       /\ DOMAIN getPredicateScope(tree, cache, p).v = {"#index", "#", "#acc"}

\* C22: getMember promotes through an embedded field of inline struct type
\* as it does through one of a named type: for a struct whose only embedded
\* field has an inline struct type with a field n, and which has no direct
\* member n, getMember returns that field n.
C22_InlinePromotion ==
  \A i \in 1..MaxFields :
    ( /\ call # Null /\ call.fn = "getMember" /\ out # Null
      /\ i <= Len(Fields(call.s.types.A))
      /\ IsSet(Fields(call.s.types.A)[i], "embedded")
      /\ Ty(Fields(call.s.types.A)[i]) = "struct"
      /\ \A j \in 1..Len(Fields(call.s.types.A)) :
           /\ Fields(call.s.types.A)[j].name # call.name
           /\ j # i => ~IsSet(Fields(call.s.types.A)[j], "embedded")
      /\ ~("methods" \in DOMAIN call.s.types.A
           /\ call.name \in DOMAIN call.s.types.A.methods)
      /\ \E k \in 1..Len(Fields(call.s.types.A)[i].fields) :
           Fields(call.s.types.A)[i].fields[k].name = call.name )
    => \E k \in 1..Len(Fields(call.s.types.A)[i].fields) :
         /\ Fields(call.s.types.A)[i].fields[k].name = call.name
         /\ out.v = Fields(call.s.types.A)[i].fields[k]

(***************************************************************************)
(* Properties of expression typing                                         *)
(***************************************************************************)
\* The condition cond compares with nil, by operator op, an expression
\* whose source text is that of branch.
ComparesWithNil(cond, op, branch) ==
  /\ cond.name = "BinaryExpr"
  /\ cond.kids[2] = Leaf("CompareOp", op)
  /\ \/ cond.kids[3].name = "Nil" /\ sliceString(cond.kids[1]) = sliceString(branch)
     \/ cond.kids[1].name = "Nil" /\ sliceString(cond.kids[3]) = sliceString(branch)

\* The conditional at the root has been queried.
ConditionalResolved ==
  /\ ret # Null
  /\ ret.node = <<1>>
  /\ Body.name = "ConditionalExpr"

\* The unwrap applies to the conditional at the root through operator op
\* and the branch at index i of the conditional: the true branch has type
\* optional<X>, the condition compares the branch's text with nil, and X
\* isEquals the false branch's type.
Unwraps(op, i) ==
  /\ TypeOf(Body.kids[2]) # Null
  /\ Ty(TypeOf(Body.kids[2])) = "optional"
  /\ ComparesWithNil(Body.kids[1], op, Body.kids[i])
  /\ isEquals(TypeOf(Body.kids[2]).item, TypeOf(Body.kids[3]))

\* C23: a conditional has the unwrapped type X when its true branch has
\* type optional<X>, its condition is `e != nil` or `nil != e` with e the
\* text of the true branch, and X isEquals the false branch's type; the
\* true branch's type when the branches are isEquals; and any in every
\* other case.
C23_NotEqualUnwrap ==
  ConditionalResolved =>
    /\ Unwraps("!=", 2) => ret.def = TypeOf(Body.kids[2]).item
    /\ isEquals(TypeOf(Body.kids[2]), TypeOf(Body.kids[3]))
         => ret.def = TypeOf(Body.kids[2])
    /\ (~Unwraps("!=", 2) /\ ~isEquals(TypeOf(Body.kids[2]), TypeOf(Body.kids[3])))
         => ret.def = AnyT

\* The binary expression at the root has been queried.
BinaryResolved ==
  /\ ret # Null
  /\ ret.node = <<1>>
  /\ Body.name = "BinaryExpr"

\* Both operands of the binary expression at the root are numeric.
BothNumeric ==
  /\ TypeOf(Body.kids[1]) \notin {Null, Raise}
  /\ TypeOf(Body.kids[3]) \notin {Null, Raise}
  /\ isNumber(TypeOf(Body.kids[1]))
  /\ isNumber(TypeOf(Body.kids[3]))

\* C24: a binary expression has type bool when its operator is a comparison
\* or a logical operator; otherwise the float tag when both operands are
\* numeric, the left operand's type when the operands are isEquals, and any
\* in every other case.
C24_BinaryTyping ==
  BinaryResolved =>
    IF Body.kids[2].name \in {"CompareOp", "LogicOp"} THEN ret.def = BoolT
    ELSE IF BothNumeric THEN ret.def = FloatT
    ELSE IF isEquals(TypeOf(Body.kids[1]), TypeOf(Body.kids[3]))
      THEN ret.def = TypeOf(Body.kids[1])
    ELSE ret.def = AnyT

\* The call at p has been queried.
CallResolved(p) ==
  /\ ret # Null
  /\ ret.node = p
  /\ p \in Paths(tree)
  /\ NodeAt(tree, p).name = "CallExpr"

\* The function the callee of the call at p resolves to, with its generics
\* substituted against the types the effective arguments resolved to.
Substituted(p) ==
  resolveFuncGenerics(TypeOf(NodeAt(tree, p \o <<1>>)),
                      [i \in 1..Len(CallArgPaths(p)) |-> cache[CallArgPaths(p)[i]]],
                      sliceString(NodeAt(tree, p \o <<1>>)))

\* The callee of the call at p resolves to a func.
CalleeIsFunc(p) ==
  /\ TypeOf(NodeAt(tree, p \o <<1>>)) \notin {Null, Raise}
  /\ Ty(TypeOf(NodeAt(tree, p \o <<1>>))) = "func"

\* C25: a call whose callee does not resolve to a func has type any; a call
\* of a func has the type of the func's first declared return after its
\* generics are substituted against the effective arguments, and any when
\* the func declares no return.
C25_CallTyping ==
  \A p \in {<<1>>, <<1, 2>>} :
    CallResolved(p) =>
      IF ~CalleeIsFunc(p) THEN ret.def = AnyT
      ELSE /\ \A i \in 1..Len(CallArgPaths(p)) : CallArgPaths(p)[i] \in DOMAIN cache
           /\ Substituted(p) # Raise
           /\ IF Len(Substituted(p).returns) = 0 THEN ret.def = AnyT
              ELSE ret.def = Substituted(p).returns[1]

\* The built-in reduce with its generics substituted against the effective
\* arguments of the call the predicate at p belongs to, the predicate's own
\* type masked as any.
ReduceOf(p) ==
  resolveFuncGenerics(builtInVariables["reduce"],
    [i \in 1..Len(CallArgPaths(Parent(Parent(p)))) |->
       IF i = 2 THEN AnyT ELSE TypeOf(NodeAt(tree, CallArgPaths(Parent(Parent(p)))[i]))],
    "reduce")

\* C26: the scope of the predicate of reduce binds #acc to the type of the
\* element # when the accumulator's type is still any after the generics
\* are substituted, and to the substituted type otherwise.
C26_AccumulatorFallback ==
  \A p \in Paths(tree) :
    (ret # Null /\ ret.node = p /\ IsPredicateOf(p, "reduce"))
    => /\ getPredicateScope(tree, cache, p).ok
       /\ {"#", "#acc"} \subseteq DOMAIN getPredicateScope(tree, cache, p).v
       /\ IF Ty(ReduceOf(p).args[2].args[3]) = "any"
            THEN Without(getPredicateScope(tree, cache, p).v["#acc"], "name")
                 = Without(getPredicateScope(tree, cache, p).v["#"], "name")
            ELSE getPredicateScope(tree, cache, p).v["#acc"] = ReduceOf(p).args[2].args[3]

(***************************************************************************)
(* The rule of the linter for binary operations, and lintNode              *)
(***************************************************************************)
\* What a validator hands back: a list of diagnostics, or nothing at all
\* when it runs into a `return` that has no value.
Found(ds) == [undefined |-> FALSE, v |-> ds]
Nothing == [undefined |-> TRUE, v |-> <<>>]

\* getBaseType for the types of a scope whose aliases end; null stands for
\* a loop that does not.
RECURSIVE getBaseTypeFrom(_, _, _)
getBaseTypeFrom(s, t, seen) ==
  IF Ty(t) = "defined" /\ t.typeName \in DOMAIN s.types
    THEN IF t.typeName \in seen THEN Null
         ELSE getBaseTypeFrom(s, s.types[t.typeName], seen \cup {t.typeName})
    ELSE t

getBaseType(s, t) == getBaseTypeFrom(s, t, {})

\* linter lines 226-244
invalidCompare(p, operand, left, right) ==
  IF ~isEquals(left, right) THEN Found(<<Diagnostic("mismatched types", p)>>)
  ELSE IF operand \in {"==", "!="} \/ isNumber(left) THEN Found(<<>>)
  ELSE Found(<<Diagnostic("the operator is not defined", p)>>)

\* linter lines 250-260: contains, startsWith, endsWith, matches
invalidStringTest(leftNode, rightNode, left, right) ==
  IF Ty(left) = "string"
    THEN (IF Ty(right) # "string"
            THEN Found(<<Diagnostic("mismatched types", rightNode)>>) ELSE Found(<<>>))
    ELSE Found(<<Diagnostic("mismatched types", leftNode)>>)

\* linter lines 261-304: in
invalidIn(p, rightNode, left, right) ==
  IF Ty(left) = "string" /\ Ty(right) \notin {"array", "slice", "map"}
    THEN Found(<<Diagnostic("is not assignable to array or map", rightNode)>>)
  ELSE IF Ty(left) = "string" /\ Ty(right) = "map" THEN Nothing
  ELSE IF Ty(right) \notin {"array", "slice"}
    THEN Found(<<Diagnostic("is not assignable to array", rightNode)>>)
  ELSE IF ~isEquals(left, Fld(right, "item"))
    THEN Found(<<Diagnostic("mismatched types", p)>>)
  ELSE Found(<<>>)

\* linter lines 246-328, keyword the name of the operator's last child and
\* operand the operator's text
invalidLogic(p, keyword, operand, leftNode, rightNode, left, right) ==
  IF keyword \in {"contains", "startsWith", "endsWith", "matches"}
    THEN invalidStringTest(leftNode, rightNode, left, right)
  ELSE IF keyword = "in" THEN invalidIn(p, rightNode, left, right)
  ELSE IF keyword # "" THEN Found(<<>>)
  ELSE IF operand = "??" THEN Found(<<>>)
  ELSE IF ~isEquals(left, right) THEN Found(<<Diagnostic("mismatched types", p)>>)
  ELSE IF Ty(left) # "bool" THEN Found(<<Diagnostic("the operator is not defined", p)>>)
  ELSE Found(<<>>)

\* linter lines 329-349
invalidArithmetic(p, operand, left, right) ==
  IF ~isEquals(left, right) THEN Found(<<Diagnostic("mismatched types", p)>>)
  ELSE IF operand = "+" /\ Ty(left) = "string" THEN Found(<<>>)
  ELSE IF getBaseType(Scope, left) # Null /\ isNumber(getBaseType(Scope, left))
    THEN Found(<<>>)
  ELSE Found(<<Diagnostic("the operator is not defined", p)>>)

\* linter lines 222-352, left and right the Definitions of the operands
invalidOperation(p, op, leftNode, rightNode, left, right) ==
  IF isUnknownType(left) \/ isUnknownType(right) THEN Found(<<>>)
  ELSE IF op.name = "CompareOp" THEN invalidCompare(p, sliceString(op), left, right)
  ELSE IF op.name = "LogicOp"
    THEN invalidLogic(p, IF op.kids = <<>> THEN "" ELSE op.kids[Len(op.kids)].name,
                      sliceString(op), leftNode, rightNode, left, right)
  ELSE IF op.name = "ArithmeticOp" THEN invalidArithmetic(p, sliceString(op), left, right)
  ELSE Found(<<>>)

\* linter line 221, left the result of resolving the left operand
invalidOperands(t, p, op, exprs, left, right) ==
  IF ~left.ok THEN left
  ELSE IF ~right.ok THEN right
  ELSE R(invalidOperation(p, op, exprs[1], exprs[2], left.v, right.v), right.c)

\* noInvalidBinaryOperation(state, node) for the BinaryExpr node at p
noInvalidBinaryOperation(t, c, p) ==
  IF Len(getChildren(t, p, ExprNames)) < 2 \/ getChild(t, p, OpNames) = NoNode
    THEN R(Found(<<Diagnostic("Invalid binary operation", p)>>), c)
    ELSE invalidOperands(t, p, NodeAt(t, getChild(t, p, OpNames)),
           getChildren(t, p, ExprNames),
           getDefinition(t, c, getChildren(t, p, ExprNames)[1]),
           getDefinition(t, getDefinition(t, c, getChildren(t, p, ExprNames)[1]).c,
                         getChildren(t, p, ExprNames)[2]))

\* The node names the table of rules has an entry for.
rules ==
  {"VarDecl", "VarName", "Block", "String", "CallExpr", "BinaryExpr", "UnaryExpr",
   "FieldName", "SelectorExpr", "OptionalSelectorExpr", "RangeExpr", "SliceExpr",
   "IndexExpr", "PipeExpr"}

\* lintNode's loop for a node with the one validator of BinaryExpr: reading
\* `.length` of a validator's result raises when there is no result.
lintValidated(diagnostic) ==
  IF ~diagnostic.ok THEN diagnostic
  ELSE IF diagnostic.v.undefined THEN Thrown(diagnostic.c)
  ELSE R(diagnostic.v.v, diagnostic.c)

\* lintNode(state, node) for the node at p, a BinaryExpr or a node the
\* table has no rules for
lintNode(t, c, p) ==
  IF NodeAt(t, p).name \notin rules THEN R(<<>>, c)
  ELSE lintValidated(noInvalidBinaryOperation(t, c, p))

\* A logical operator spelled as a keyword: the keyword is the operator
\* node's child.
KeywordOp(l, keyword, r) ==
  Tree("BinaryExpr", <<l, Tree("LogicOp", <<Leaf(keyword, keyword)>>), r>>)

LintOperands ==
  {StringLit, Integer("1"), VarName("$env"), VarName("arr"), VarName("n"), VarName("a"),
   Selector("SelectorExpr", VarName("u"), "zz")}

BinaryLintDocs ==
  {Script(<<>>, body) :
     body \in {KeywordOp(l, k, r) : l \in LintOperands, r \in LintOperands,
                                    k \in {"in", "contains"}}
         \cup {Binary(l, op[1], op[2], r) :
                 l \in LintOperands, r \in LintOperands,
                 op \in {<<"CompareOp", "==">>, <<"CompareOp", "<">>,
                         <<"ArithmeticOp", "+">>, <<"LogicOp", "&&">>}}}

InitLintNode ==
  /\ tree \in BinaryLintDocs
  /\ cache = <<>>
  /\ ret = Null
  /\ edits = 0
  /\ queries = 0
  /\ fresh = {}
  /\ call = Null
  /\ out = Null

\* The linter visits the node at p.
LintNode(p) ==
  /\ out = Null
  /\ NodeAt(tree, p).name \in {"BinaryExpr"} \cup ((ExprNames \cup OpNames) \ rules)
  /\ call' = [fn |-> "lintNode", node |-> p]
  /\ out' = [ok |-> lintNode(tree, cache, p).ok, v |-> lintNode(tree, cache, p).v]
  /\ cache' = lintNode(tree, cache, p).c
  /\ UNCHANGED <<tree, ret, edits, queries, fresh>>

NextLintNode == \E p \in Paths(tree) : LintNode(p)

SpecLintNode == InitLintNode /\ [][NextLintNode]_vars

\* C27: lintNode returns a list of diagnostics for every node, without
\* raising; for a binary `in` whose left operand is a string and whose
\* right operand is a map, such as `'a' in $env`, the list is empty.
C27_LintNodeTotal ==
  (out # Null /\ call # Null /\ call.fn = "lintNode") =>
    /\ out.ok
    /\ ( /\ NodeAt(tree, call.node).name = "BinaryExpr"
         /\ NodeAt(tree, call.node).kids[2] = Tree("LogicOp", <<Leaf("in", "in")>>)
         /\ NodeAt(tree, call.node).kids[1] = StringLit
         /\ NodeAt(tree, call.node).kids[3] = VarName("$env") )
       => out.v = <<>>

\* The member names the two lookups are compared on: the names of fields
\* and methods of the registries, and one that none of them has.
MemberNames == {"X", "Y", "B", "C", "E", "F", "A", "Z"}

LocalDecls ==
  {VarDecl(v, init) : v \in {"y", "z"},
                      init \in {Integer("1"), VarName("y"), VarName("z")}}

LocalDocs ==
  {Script(ds, VarName("y")) : ds \in SeqsUpTo(LocalDecls, MaxDecls) \ {<<>>}}

\* A collaborator holds a node of the document and asks for the local scope
\* at it, with the offset left to its default or given: the completion
\* source gives the cursor, an offset of the node, and the hover of a
\* declaration gives the offset after the declaration's end.
InitLocal ==
  /\ tree \in LocalDocs
  /\ cache = <<>>
  /\ ret = Null
  /\ edits = 0
  /\ queries = 0
  /\ fresh = {}
  /\ call \in UNION {
       {[fn |-> "getLocalScope", target |-> p, given |-> FALSE, pos |-> From(tree, p)]}
       \cup {[fn |-> "getLocalScope", target |-> p, given |-> TRUE, pos |-> pos] :
               pos \in From(tree, p)..To(tree, p) + 1}
       : p \in Paths(tree) \ {<<>>}}
  /\ out = Null

\* The call returns r: its value, and the memo as the call leaves it.
LocalScopeReturns(r) ==
  /\ out' = [ok |-> r.ok, v |-> r.v]
  /\ cache' = r.c

\* getLocalScope(state, target, pos) returns or raises.
GetLocalScope ==
  /\ out = Null
  /\ call.fn = "getLocalScope"
  /\ LocalScopeReturns(IF call.given
                         THEN getLocalScopeAt(tree, cache, call.target, call.pos)
                         ELSE getLocalScope(tree, cache, call.target))
  /\ UNCHANGED <<tree, ret, edits, queries, fresh, call>>

NextLocal == GetLocalScope

SpecLocal == InitLocal /\ [][NextLocal]_vars

\* C30: getLocalScope returns, and the scope it returns contains only
\* declarations that end strictly before the query offset, so that no
\* variable is visible in its own initializer or before its declaration;
\* the initializers resolved on the way all lie before the offset as well.
C30_LocalScopeWellFounded ==
  (out # Null /\ call.fn = "getLocalScope") =>
    /\ out.ok
    /\ \A name \in DOMAIN out.v :
         \E i \in Declaring(tree, name) : To(tree, <<i>>) < call.pos
    /\ \A q \in DOMAIN cache : To(tree, q) < call.pos

\* C30 witness: in `let y = y y` the scope at the initializer of y is empty
\* and was computed without resolving anything.
C30_Witness ==
  /\ out # Null /\ call.fn = "getLocalScope"
  /\ tree = Script(<<VarDecl("y", VarName("y"))>>, VarName("y"))
  /\ call.target = <<1, 2>>
  /\ ~call.given
  /\ out.ok
  /\ DOMAIN out.v = {}
  /\ cache = <<>>
====
